---------------------------- MODULE Spec2Model ----------------------------
(***************************************************************************)
(* A model of lblconv's intermediate representation (ir.go): the          *)
(* annotation data model and the stages Filter, TransformBboxes and       *)
(* ProcessImages (with resizeImage from the image utilities).             *)
(*                                                                         *)
(* float64 values are modelled as exact rationals <<n, d>> (d > 0, in     *)
(* lowest terms); strings that the code takes apart (file paths) are      *)
(* sequences of tokens in which "/" and "." are tokens of their own.      *)
(***************************************************************************)
EXTENDS Integers, Sequences, FiniteSets, TLC

VARIABLES
    data,           \* the dataset: AnnotatedFiles, a sequence of AnnotatedFile
    cfg,            \* the arguments of the stage under analysis
    pc,             \* position of the calling goroutine
    orig,           \* the dataset as it was parsed (history)
    prev,           \* the dataset before the latest stage call (history)
    panicked,       \* TRUE once the program aborted with a runtime panic
    \* ProcessImages:
    workQueue,      \* chan *AnnotatedFile: [buf, closed], buf holds indices into data
    croppedDataCh,  \* chan *AnnotatedFile: [buf, closed], buf holds the crops' metadata
    croppedData,    \* the collector's result list
    errors,         \* chan error of capacity 1: its buffer
    workers,        \* the worker goroutines: [pc, d, images, imageData, i]
    collector,      \* the collector goroutine: "none", "run" or "done"
    feedIdx,        \* the feeding loop's index
    ret,            \* the error ProcessImages returned: nil or <<error>>
    saved,          \* the images written to the output directory (history)
    reported,       \* the errors handed to trySendError, in order (history)
    \* Split:
    datasets,       \* the datasets Split returned
    draws           \* the values rng.Intn(100) gave, one per file placed (history)

piVars == <<workQueue, croppedDataCh, croppedData, errors, workers, collector,
            feedIdx, ret, saved, reported>>
splitVars == <<datasets, draws>>
vars == <<data, cfg, pc, orig, prev, panicked,
          workQueue, croppedDataCh, croppedData, errors, workers, collector,
          feedIdx, ret, saved, reported, datasets, draws>>

----------------------------------------------------------------------------
(* Bounds of the model.                                                    *)

MaxSize == 4        \* size of a dataset handed to Filter: files plus annotations
MaxBoxes == 3       \* size of a dataset handed to TransformBboxes, likewise
MaxJobs == 2        \* files of a dataset handed to ProcessImages
NumCPU == 1         \* runtime.NumCPU() of the machine
MaxSplits == 3      \* entries of a boundary list handed to Split
MaxFiles == 3       \* files of a dataset handed to Split
MaxRules == 2       \* rules of a mapping list handed to MapLabels
QueueJobs == 5      \* files of the dataset that fills the queues of ProcessImages

----------------------------------------------------------------------------
(* float64 as exact rationals.                                             *)

RECURSIVE Gcd(_, _)
Gcd(a, b) == IF b = 0 THEN a ELSE Gcd(b, a % b)

Abs(x) == IF x < 0 THEN -x ELSE x

Q(n, d) ==
    LET s == IF d < 0 THEN -1 ELSE 1
        g == Gcd(Abs(n), Abs(d))
    IN  <<(s * n) \div g, (s * d) \div g>>

F(n) == <<n, 1>>
QAdd(a, b) == Q(a[1] * b[2] + b[1] * a[2], a[2] * b[2])
QSub(a, b) == Q(a[1] * b[2] - b[1] * a[2], a[2] * b[2])
QMul(a, b) == Q(a[1] * b[1], a[2] * b[2])
QDiv(a, b) == Q(a[1] * b[2], a[2] * b[1])
QLt(a, b) == a[1] * b[2] < b[1] * a[2]
QLe(a, b) == a[1] * b[2] <= b[1] * a[2]
QGt(a, b) == QLt(b, a)
QGe(a, b) == QLe(b, a)
QZero == F(0)
QHalf == Q(1, 2)

----------------------------------------------------------------------------
(* The data model (ir.go: Annotation, AnnotatedFile, AnnotatedFiles).      *)
(* An attribute value is a record [kind, val]; kind is the Go dynamic type *)
(* of the interface value. id and fid are history fields naming the        *)
(* annotation and the file as parsed; no operation reads them.             *)

Confidence == "Confidence"
AncestorLabels == "Ancestors"
DetectedText == "Text"
CropCoords == "CropCoords"
Occluded == "occluded"      \* a boolean attribute, as format parsers produce

FloatV(q) == [kind |-> "float64", val |-> q]
StringV(s) == [kind |-> "string", val |-> s]
ListV(l) == [kind |-> "[]string", val |-> l]
BoolV(b) == [kind |-> "bool", val |-> b]

Annotation(attrs, coords, label) ==
    [Attributes |-> attrs, Coords |-> coords, Label |-> label, id |-> 0]

Width(a) == QSub(a.Coords[3], a.Coords[1])
Height(a) == QSub(a.Coords[4], a.Coords[2])

Box(x1, y1, x2, y2) == <<F(x1), F(y1), F(x2), F(y2)>>

NoAttrs == [k \in {} |-> 0]

Restrict(f, S) == [k \in (DOMAIN f) \cap S |-> f[k]]

Range(s) == {s[i] : i \in DOMAIN s}


\* The nil error; an error e is <<e>>.
nil == <<>>

NoChan == [buf |-> <<>>, closed |-> FALSE]

\* ProcessImages has not been entered.
NotProcessing ==
    /\ workQueue = NoChan
    /\ croppedDataCh = NoChan
    /\ croppedData = <<>>
    /\ errors = <<>>
    /\ workers = <<>>
    /\ collector = "none"
    /\ feedIdx = 0
    /\ ret = nil
    /\ saved = {}
    /\ reported = <<>>

\* Split has not been entered.
NotSplit ==
    /\ datasets = <<>>
    /\ draws = <<>>

----------------------------------------------------------------------------
(* Filter (ir.go:235-348).  P is the parameter bundle of the call.         *)

\* The last annotation is cut off and not moved to position i.
deleteAnnotationCutLast(annotations, i) ==
    SubSeq(annotations, 1, Len(annotations) - 1)

\* deleteAnnotation: annotations[i] = annotations[l-1]; annotations[:l-1]
\* (i counts from 0, as in the code).
deleteAnnotation(annotations, i) ==
    LET l == Len(annotations)
    IN  SubSeq([annotations EXCEPT ![i + 1] = annotations[l]], 1, l - 1)

\* The index is not stepped back after a deletion.
IndexAfterDeleteNoStepBack(i) == i + 1

\* aLen--; i--; continue: the loop's i++ then revisits position i, which now
\* holds the element moved there.
IndexAfterDelete(i) == i

inList(v, l) == \E j \in 1..Len(l) : l[j] = v

\* The ok of the type assertion is ignored: a missing confidence reads as 0.
ConfidenceBelowIgnoringOk(a, minConfidence) ==
    IF Confidence \in DOMAIN a.Attributes /\ a.Attributes[Confidence].kind = "float64"
    THEN QLt(a.Attributes[Confidence].val, minConfidence)
    ELSE QLt(QZero, minConfidence)

\* c, ok := a.Attributes[Confidence].(float64); ok && c < minConfidence
ConfidenceBelow(a, minConfidence) ==
    /\ Confidence \in DOMAIN a.Attributes
    /\ a.Attributes[Confidence].kind = "float64"
    /\ QLt(a.Attributes[Confidence].val, minConfidence)

\* minBboxWidth > width || minBboxHeight > height
BboxTooSmall(a, minBboxWidth, minBboxHeight) ==
    \/ QGt(minBboxWidth, Width(a))
    \/ QGt(minBboxHeight, Height(a))

\* The aspect ratio test: keep is computed only when a bound is set.
AspectRatioKeep(a, minAspectRatio, maxAspectRatio) ==
    IF minAspectRatio # QZero \/ maxAspectRatio # QZero
    THEN /\ Height(a) # QZero
         /\ LET ratio == QDiv(Width(a), Height(a))
            IN  /\ (minAspectRatio = QZero \/ QGe(ratio, minAspectRatio))
                /\ (maxAspectRatio = QZero \/ QLe(ratio, maxAspectRatio))
    ELSE TRUE

\* len(labelNames) > 0 && !inList(a.Label, labelNames)
LabelFiltered(a, labelNames) ==
    Len(labelNames) > 0 /\ ~inList(a.Label, labelNames)

\* reflect.Zero(reflect.TypeOf(v)).Interface() for the comparable kinds.
ZeroValue(kind) ==
    CASE kind = "float64" -> QZero
      [] kind = "string" -> ""
      [] kind = "bool" -> FALSE

\* The loop over requiredAttrs from position j on: "delete" when a value is
\* nil or equals the zero value of its type, "panic" when the interface
\* comparison is applied to a []string (an uncomparable type), else "keep".
RECURSIVE RequiredAttrs(_, _, _)
RequiredAttrs(a, requiredAttrs, j) ==
    IF j > Len(requiredAttrs) THEN "keep"
    ELSE LET k == requiredAttrs[j]
         IN  IF k \notin DOMAIN a.Attributes THEN "delete"
             ELSE IF a.Attributes[k].kind = "[]string" THEN "panic"
             ELSE IF a.Attributes[k].val = ZeroValue(a.Attributes[k].kind)
                  THEN "delete"
             ELSE RequiredAttrs(a, requiredAttrs, j + 1)

\* The attributes of the list are the ones deleted.
FilterAttributesListed(attrs, attributes) ==
    IF Len(attributes) > 0
    THEN Restrict(attrs, {k \in DOMAIN attrs : ~inList(k, attributes)})
    ELSE attrs

\* for k := range a.Attributes { if !inList(k, attributes) { delete(...) } }
FilterAttributes(attrs, attributes) ==
    IF Len(attributes) > 0
    THEN Restrict(attrs, {k \in DOMAIN attrs : inList(k, attributes)})
    ELSE attrs

\* The annotation loop of one file, from index i (0-based) with aLen
\* annotations left.
RECURSIVE FilterAnnotations(_, _, _, _)
FilterAnnotations(annotations, i, aLen, P) ==
    IF i >= aLen THEN [Annotations |-> annotations, panic |-> FALSE]
    ELSE
      LET a == annotations[i + 1]
          deleted == FilterAnnotations(deleteAnnotation(annotations, i),
                                       IndexAfterDelete(i), aLen - 1, P)
      IN  IF ConfidenceBelow(a, P.minConfidence) THEN deleted
          ELSE IF BboxTooSmall(a, P.minBboxWidth, P.minBboxHeight) THEN deleted
          ELSE IF ~AspectRatioKeep(a, P.minAspectRatio, P.maxAspectRatio) THEN deleted
          ELSE IF LabelFiltered(a, P.labelNames) THEN deleted
          ELSE
            LET req == RequiredAttrs(a, P.requiredAttrs, 1)
            IN  IF req = "panic" THEN [Annotations |-> annotations, panic |-> TRUE]
                ELSE IF req = "delete" THEN deleted
                ELSE FilterAnnotations(
                       [annotations EXCEPT ![i + 1].Attributes =
                            FilterAttributes(a.Attributes, P.attributes)],
                       i + 1, aLen, P)

\* The file loop without dataIdx--: the file moved into the freed slot is not
\* filtered.
RECURSIVE FilterFilesNoStepBack(_, _, _, _)
FilterFilesNoStepBack(d, dataIdx, dataLen, P) ==
    IF dataIdx >= dataLen THEN [data |-> d, panic |-> FALSE]
    ELSE
      LET r == FilterAnnotations(d[dataIdx + 1].Annotations, 0,
                                 Len(d[dataIdx + 1].Annotations), P)
          d1 == [d EXCEPT ![dataIdx + 1].Annotations = r.Annotations]
      IN  IF r.panic THEN [data |-> d1, panic |-> TRUE]
          ELSE IF P.requireLabel /\ Len(r.Annotations) = 0
               THEN FilterFilesNoStepBack(
                      SubSeq([d1 EXCEPT ![dataIdx + 1] = d1[dataLen]], 1, dataLen - 1),
                      dataIdx + 1, dataLen - 1, P)
          ELSE FilterFilesNoStepBack(d1, dataIdx + 1, dataLen, P)

\* The file loop, from index dataIdx (0-based) with dataLen files left.
RECURSIVE FilterFiles(_, _, _, _)
FilterFiles(d, dataIdx, dataLen, P) ==
    IF dataIdx >= dataLen THEN [data |-> d, panic |-> FALSE]
    ELSE
      LET r == FilterAnnotations(d[dataIdx + 1].Annotations, 0,
                                 Len(d[dataIdx + 1].Annotations), P)
          d1 == [d EXCEPT ![dataIdx + 1].Annotations = r.Annotations]
      IN  IF r.panic THEN [data |-> d1, panic |-> TRUE]
          ELSE IF P.requireLabel /\ Len(r.Annotations) = 0
               THEN FilterFiles(
                      SubSeq([d1 EXCEPT ![dataIdx + 1] = d1[dataLen]], 1, dataLen - 1),
                      dataIdx, dataLen - 1, P)
          ELSE FilterFiles(d1, dataIdx + 1, dataLen, P)

Filter(d, P) == FilterFiles(d, 0, Len(d), P)

----------------------------------------------------------------------------
(* Inputs of the Filter analysis.                                          *)

AnnPool ==
    { Annotation([k \in {Confidence, DetectedText} |->
                    IF k = Confidence THEN FloatV(Q(4, 10)) ELSE StringV("x")],
                 Box(0, 0, 4, 2), "cat"),
      Annotation([k \in {Confidence, DetectedText} |->
                    IF k = Confidence THEN FloatV(Q(6, 10)) ELSE StringV("")],
                 Box(0, 0, 2, 4), "dog"),
      Annotation(NoAttrs, Box(1, 1, 3, 1), "cat"),
      Annotation([k \in {AncestorLabels, DetectedText} |->
                    IF k = AncestorLabels THEN ListV(<<"animal">>) ELSE StringV("x")],
                 Box(0, 0, 2, 2), "dog"),
      Annotation([k \in {Confidence, Occluded} |->
                    IF k = Confidence THEN FloatV(QHalf) ELSE BoolV(FALSE)],
                 Box(0, 0, 3, 3), "cat") }

AnnSeqs(pool, k) == [1..k -> pool]

\* Every sequence of lists of annotations of the pool of size at most n, the
\* size being the number of lists plus the number of annotations in them.
RECURSIVE FileLists(_, _)
FileLists(pool, n) ==
    IF n = 0 THEN {<<>>}
    ELSE {<<>>} \cup
         UNION { {<<anns>> \o rest : anns \in AnnSeqs(pool, j),
                                     rest \in FileLists(pool, n - 1 - j)}
                 : j \in 0..(n - 1) }

FilePathN(f) == <<"in", "/", "img", ToString(f), ".", "jpg">>

MkDataset(fl) ==
    [f \in 1..Len(fl) |->
        [FilePath |-> FilePathN(f), fid |-> f,
         Annotations |-> [j \in 1..Len(fl[f]) |-> [fl[f][j] EXCEPT !.id = 10 * f + j]]]]

FilterDatasets == {MkDataset(fl) : fl \in FileLists(AnnPool, MaxSize)}

NeutralParams ==
    [labelNames |-> <<>>, attributes |-> <<>>, requiredAttrs |-> <<>>,
     minConfidence |-> QZero, requireLabel |-> FALSE,
     minBboxWidth |-> QZero, minBboxHeight |-> QZero,
     minAspectRatio |-> QZero, maxAspectRatio |-> QZero]

AllFilterParams ==
    [labelNames : {<<>>, <<"cat">>},
     attributes : {<<>>, <<Confidence>>, <<DetectedText>>},
     requiredAttrs : {<<>>, <<DetectedText>>, <<AncestorLabels, DetectedText>>},
     minConfidence : {QZero, QHalf},
     requireLabel : BOOLEAN,
     minBboxWidth : {QZero, F(3)}, minBboxHeight : {QZero, F(1)},
     minAspectRatio : {QZero, F(1)}, maxAspectRatio : {QZero, F(1)}]

\* The bundles in which at most two parameters differ from the neutral one.
FilterParams ==
    {P \in AllFilterParams :
        Cardinality({k \in DOMAIN P : P[k] # NeutralParams[k]}) <= 2}

----------------------------------------------------------------------------
(* Filter applied to a parsed dataset, and a second time to its own output. *)

InitFilter ==
    /\ data \in FilterDatasets
    /\ cfg \in FilterParams
    /\ pc = "start"
    /\ orig = data
    /\ prev = data
    /\ panicked = FALSE
    /\ NotProcessing
    /\ NotSplit

CallFilter(from, to) ==
    /\ pc = from
    /\ LET r == Filter(data, cfg)
       IN  /\ data' = r.data
           /\ panicked' = r.panic
           /\ pc' = IF r.panic THEN "panic" ELSE to
    /\ prev' = data
    /\ UNCHANGED <<cfg, orig>>
    /\ UNCHANGED piVars
    /\ UNCHANGED splitVars

FilterOnce == CallFilter("start", "filtered")

FilterAgain == CallFilter("filtered", "refiltered")

NextFilter == FilterOnce \/ FilterAgain

SpecFilter == InitFilter /\ [][NextFilter]_vars

----------------------------------------------------------------------------
(* Properties of Filter.                                                   *)

AllAnnotations(d) == UNION {Range(d[f].Annotations) : f \in DOMAIN d}
AnnotationIds(d) == {a.id : a \in AllAnnotations(d)}

\* C1 as stated: a second application of Filter with the same parameters to
\* the output of the first changes nothing (no annotation, attribute or file
\* is removed). It fails when a required attribute is not in the attribute
\* allow-list: the first application strips the attribute from the survivors,
\* the second deletes them for lacking it.
C1_FilterIdempotent ==
    pc = "refiltered" => data = prev

RequiredAttrsAllowed(P) ==
    Len(P.attributes) = 0 \/ \A k \in Range(P.requiredAttrs) : inList(k, P.attributes)

\* C1 amended: when the attribute allow-list is empty or lists every required
\* attribute, a second application of Filter with the same parameters to the
\* output of a first application that completed changes nothing.
C1_FilterIdempotentWhenRequiredAllowed ==
    (pc = "refiltered" /\ RequiredAttrsAllowed(cfg)) => data = prev

\* Witness of C1: both lists are set, the required attributes are allow-listed,
\* the first application removed an annotation and an attribute and kept an
\* annotation, and a second application has run.
C1_Witness ==
    /\ pc = "refiltered"
    /\ Len(cfg.attributes) > 0 /\ Len(cfg.requiredAttrs) > 0
    /\ RequiredAttrsAllowed(cfg)
    /\ AnnotationIds(data) # {}
    /\ AnnotationIds(data) # AnnotationIds(orig)
    /\ \E a \in AllAnnotations(data), b \in AllAnnotations(orig) :
          a.id = b.id /\ DOMAIN a.Attributes # DOMAIN b.Attributes

HasFloatConfidence(a) ==
    Confidence \in DOMAIN a.Attributes /\ a.Attributes[Confidence].kind = "float64"

PassesOtherPredicates(a, P) ==
    /\ ~BboxTooSmall(a, P.minBboxWidth, P.minBboxHeight)
    /\ AspectRatioKeep(a, P.minAspectRatio, P.maxAspectRatio)
    /\ ~LabelFiltered(a, P.labelNames)
    /\ RequiredAttrs(a, P.requiredAttrs, 1) = "keep"

\* C10: after Filter with minimum confidence m, no annotation with a float
\* confidence strictly below m is left, and every annotation whose confidence
\* is >= m or that has no confidence attribute, and that passes the four other
\* predicates, is still in the dataset.
C10_MinConfidence ==
    pc = "filtered" =>
        /\ \A a \in AllAnnotations(orig) :
              (HasFloatConfidence(a) /\ QLt(a.Attributes[Confidence].val, cfg.minConfidence))
                  => a.id \notin AnnotationIds(data)
        /\ \A a \in AllAnnotations(orig) :
              (/\ ~(HasFloatConfidence(a)
                      /\ QLt(a.Attributes[Confidence].val, cfg.minConfidence))
               /\ PassesOtherPredicates(a, cfg))
                  => a.id \in AnnotationIds(data)

\* Witness of C10: with m = 0.5 a file held annotations of confidence 0.4, of
\* confidence 0.6 and without confidence; Filter removed the first and kept
\* the other two.
C10_Witness ==
    /\ pc = "filtered"
    /\ cfg.minConfidence = QHalf
    /\ \E f \in DOMAIN orig :
         \E a, b, c \in Range(orig[f].Annotations) :
            /\ HasFloatConfidence(a) /\ a.Attributes[Confidence].val = Q(4, 10)
            /\ HasFloatConfidence(b) /\ b.Attributes[Confidence].val = Q(6, 10)
            /\ Confidence \notin DOMAIN c.Attributes
            /\ a.id \notin AnnotationIds(data)
            /\ b.id \in AnnotationIds(data)
            /\ c.id \in AnnotationIds(data)

----------------------------------------------------------------------------
(* TransformBboxes (ir.go:177-221).                                        *)

\* The scale step moves each edge by the whole difference, not by half of it.
ScaleBboxNoHalf(c, scaleX, scaleY) ==
    IF scaleX # F(1) \/ scaleY # F(1)
    THEN LET w == QSub(c[3], c[1])
             h == QSub(c[4], c[2])
             dx == QSub(QMul(w, scaleX), w)
             dy == QSub(QMul(h, scaleY), h)
         IN  <<QSub(c[1], dx), QSub(c[2], dy), QAdd(c[3], dx), QAdd(c[4], dy)>>
    ELSE c

\* The scale step takes the vertical factor for the width and the horizontal
\* factor for the height.
ScaleBboxSwapped(c, scaleX, scaleY) ==
    IF scaleX # F(1) \/ scaleY # F(1)
    THEN LET w == QSub(c[3], c[1])
             h == QSub(c[4], c[2])
             dx == QMul(QSub(QMul(w, scaleY), w), QHalf)
             dy == QMul(QSub(QMul(h, scaleX), h), QHalf)
         IN  <<QSub(c[1], dx), QSub(c[2], dy), QAdd(c[3], dx), QAdd(c[4], dy)>>
    ELSE c

\* Scale: dx := (w*scaleX - w) * 0.5, dy likewise, applied to both edges.
ScaleBbox(c, scaleX, scaleY) ==
    IF scaleX # F(1) \/ scaleY # F(1)
    THEN LET w == QSub(c[3], c[1])
             h == QSub(c[4], c[2])
             dx == QMul(QSub(QMul(w, scaleX), w), QHalf)
             dy == QMul(QSub(QMul(h, scaleY), h), QHalf)
         IN  <<QSub(c[1], dx), QSub(c[2], dy), QAdd(c[3], dx), QAdd(c[4], dy)>>
    ELSE c

\* ratio < aspectRatio and ratio > aspectRatio, where ratio is w / h, or
\* math.MaxFloat64 when h is 0 (aspectRatio is taken to be below MaxFloat64).
RatioLess(w, h, aspectRatio) == h # QZero /\ QLt(QDiv(w, h), aspectRatio)
RatioGreater(w, h, aspectRatio) == h = QZero \/ QGt(QDiv(w, h), aspectRatio)

\* The vertical expansion computes dy from h * aspectRatio instead of
\* w / aspectRatio.
GrowBboxWrongHeight(c, aspectRatio) ==
    IF QGt(aspectRatio, QZero)
    THEN LET w == QSub(c[3], c[1])
             h == QSub(c[4], c[2])
         IN  IF RatioLess(w, h, aspectRatio)
             THEN LET dx == QMul(QSub(QMul(h, aspectRatio), w), QHalf)
                  IN  <<QSub(c[1], dx), c[2], QAdd(c[3], dx), c[4]>>
             ELSE IF RatioGreater(w, h, aspectRatio)
             THEN LET dy == QMul(QSub(QMul(w, aspectRatio), h), QHalf)
                  IN  <<c[1], QSub(c[2], dy), c[3], QAdd(c[4], dy)>>
             ELSE c
    ELSE c

\* The expansion moves the far edge only, by the whole difference.
GrowBboxFarEdge(c, aspectRatio) ==
    IF QGt(aspectRatio, QZero)
    THEN LET w == QSub(c[3], c[1])
             h == QSub(c[4], c[2])
         IN  IF RatioLess(w, h, aspectRatio)
             THEN LET dx == QSub(QMul(h, aspectRatio), w)
                  IN  <<c[1], c[2], QAdd(c[3], dx), c[4]>>
             ELSE IF RatioGreater(w, h, aspectRatio)
             THEN LET dy == QSub(QDiv(w, aspectRatio), h)
                  IN  <<c[1], c[2], c[3], QAdd(c[4], dy)>>
             ELSE c
    ELSE c

\* Grow to match the desired aspect ratio.
GrowBbox(c, aspectRatio) ==
    IF QGt(aspectRatio, QZero)
    THEN LET w == QSub(c[3], c[1])
             h == QSub(c[4], c[2])
         IN  IF RatioLess(w, h, aspectRatio)
             THEN LET dx == QMul(QSub(QMul(h, aspectRatio), w), QHalf)
                  IN  <<QSub(c[1], dx), c[2], QAdd(c[3], dx), c[4]>>
             ELSE IF RatioGreater(w, h, aspectRatio)
             THEN LET dy == QMul(QSub(QDiv(w, aspectRatio), h), QHalf)
                  IN  <<c[1], QSub(c[2], dy), c[3], QAdd(c[4], dy)>>
             ELSE c
    ELSE c

TransformBboxes(d, scaleX, scaleY, aspectRatio) ==
    [f \in DOMAIN d |->
        [d[f] EXCEPT !.Annotations =
            [i \in DOMAIN d[f].Annotations |->
                [d[f].Annotations[i] EXCEPT !.Coords =
                    GrowBbox(ScaleBbox(d[f].Annotations[i].Coords, scaleX, scaleY),
                             aspectRatio)]]]]

\* Boxes, among them degenerate ones: zero height, zero width, zero size,
\* x2 < x1 and y2 < y1.
BoxPool ==
    { Annotation(NoAttrs, c, "cat") :
        c \in { Box(0, 0, 4, 2), Box(0, 0, 2, 4), Box(1, 1, 3, 3), Box(1, 1, 3, 1),
                Box(1, 1, 1, 3), Box(2, 2, 2, 2), Box(4, 0, 0, 2), Box(0, 4, 2, 0) } }

BboxDatasets == {MkDataset(fl) : fl \in FileLists(BoxPool, MaxBoxes)}

\* main.go:249-253 admits scale factors > 0 and aspect ratios >= 0; the
\* function itself takes any float, so a negative aspect ratio is drawn too.
BboxParams ==
    [scaleX : {QHalf, F(1), F(2)}, scaleY : {QHalf, F(1), F(2)},
     aspectRatio : {F(-1), QZero, QHalf, F(1), F(2)}]

InitBbox ==
    /\ data \in BboxDatasets
    /\ cfg \in BboxParams
    /\ pc = "start"
    /\ orig = data
    /\ prev = data
    /\ panicked = FALSE
    /\ NotProcessing
    /\ NotSplit

CallTransformBboxes ==
    /\ pc = "start"
    /\ data' = TransformBboxes(data, cfg.scaleX, cfg.scaleY, cfg.aspectRatio)
    /\ pc' = "transformed"
    /\ prev' = data
    /\ UNCHANGED <<cfg, orig, panicked>>
    /\ UNCHANGED piVars
    /\ UNCHANGED splitVars

NextBbox == CallTransformBboxes

SpecBbox == InitBbox /\ [][NextBbox]_vars

\* The annotation of d that stems from the parsed annotation a.
Same(d, a) == CHOOSE b \in AllAnnotations(d) : b.id = a.id

\* C9 as stated: for aspectRatio > 0, after TransformBboxes every box has
\* width/height = aspectRatio (exactly, in exact arithmetic), and neither its
\* width nor its height is smaller than before the call. It fails for a scale
\* factor below 1, and for boxes that cannot be grown (zero size, x2 < x1 or
\* y2 < y1).
C9_RatioReachedNeverSmaller ==
    (pc = "transformed" /\ QGt(cfg.aspectRatio, QZero)) =>
        \A a \in AllAnnotations(orig) :
            LET b == Same(data, a)
            IN  /\ Height(b) # QZero
                /\ QDiv(Width(b), Height(b)) = cfg.aspectRatio
                /\ QGe(Width(b), Width(a))
                /\ QGe(Height(b), Height(a))

\* C9 amended: for aspectRatio > 0, scale factors > 0 and every box whose
\* width and height are >= 0 and not both 0, after TransformBboxes the box has
\* width/height = aspectRatio, and neither its width nor its height is smaller
\* than the scaled ones (width before the call x scaleX, height x scaleY).
C9_RatioReachedNeverBelowScaled ==
    (pc = "transformed" /\ QGt(cfg.aspectRatio, QZero)
        /\ QGt(cfg.scaleX, QZero) /\ QGt(cfg.scaleY, QZero)) =>
        \A a \in AllAnnotations(orig) :
            (QGe(Width(a), QZero) /\ QGe(Height(a), QZero)
                /\ (Width(a) # QZero \/ Height(a) # QZero)) =>
            LET b == Same(data, a)
            IN  /\ Height(b) # QZero
                /\ QDiv(Width(b), Height(b)) = cfg.aspectRatio
                /\ QGe(Width(b), QMul(Width(a), cfg.scaleX))
                /\ QGe(Height(b), QMul(Height(a), cfg.scaleY))

\* Witness of C9: a call with a scale factor below 1 and an aspect ratio > 0
\* on a dataset with a box of positive size that was grown horizontally beyond
\* its scaled width and a box of zero height that was grown vertically and is
\* narrower than before the call.
C9_Witness ==
    /\ pc = "transformed"
    /\ QGt(cfg.aspectRatio, QZero)
    /\ QLt(cfg.scaleX, F(1))
    /\ \E a, c \in AllAnnotations(orig) :
          /\ QGt(Width(a), QZero) /\ QGt(Height(a), QZero)
          /\ QGt(Width(Same(data, a)), QMul(Width(a), cfg.scaleX))
          /\ QGt(Width(c), QZero) /\ Height(c) = QZero
          /\ QGt(Height(Same(data, c)), QZero)
          /\ QLt(Width(Same(data, c)), Width(c))

----------------------------------------------------------------------------
(* Image processing: the helpers of processImage (ir.go:472-547).          *)
(*                                                                         *)
(* A file path is a sequence of tokens; "/", ".", "_" and the decimal      *)
(* digits are tokens of their own, so that two token sequences are equal   *)
(* exactly when the strings are. An image is a record of its pixel width   *)
(* and height; a rectangle is <<minX, minY, maxX, maxY>>.                  *)

Min(a, b) == IF a < b THEN a ELSE b
Max(a, b) == IF a > b THEN a ELSE b

\* math.Round followed by int(): to the nearest integer, halves away from 0.
Round(q) ==
    IF q[1] >= 0 THEN (2 * q[1] + q[2]) \div (2 * q[2])
    ELSE -((2 * (-q[1]) + q[2]) \div (2 * q[2]))

\* The index of the last "/" of path, or 0.
LastSlash(path) ==
    IF \E i \in DOMAIN path : path[i] = "/"
    THEN CHOOSE i \in DOMAIN path : path[i] = "/" /\ \A j \in DOMAIN path : path[j] = "/" => j <= i
    ELSE 0

\* filepath.Base, for a path that does not end in a separator.
Base(path) == SubSeq(path, LastSlash(path) + 1, Len(path))

\* filepath.Ext: the suffix from the last "." of the last path element on.
Ext(path) ==
    LET dots == {i \in DOMAIN path : path[i] = "." /\ i > LastSlash(path)}
    IN  IF dots = {} THEN <<>>
        ELSE SubSeq(path, CHOOSE i \in dots : \A j \in dots : j <= i, Len(path))

RECURSIVE Digits(_)
Digits(n) == IF n < 10 THEN <<ToString(n)>> ELSE Digits(n \div 10) \o <<ToString(n % 10)>>

\* %d: the index is not padded.
FmtD(i) == Digits(i)

\* %02d
Fmt02d(i) == IF i < 10 THEN <<"0">> \o Digits(i) ELSE Digits(i)

\* fmt.Sprintf("%s_%02d%s", f.FilePath[0:len(f.FilePath)-len(ext)], i, ext)
CropPath(FilePath, i) ==
    LET ext == Ext(FilePath)
    IN  SubSeq(FilePath, 1, Len(FilePath) - Len(ext)) \o <<"_">> \o Fmt02d(i) \o ext

\* inName[0:len(inName)-len(inFileExt)] + fileExt, joined to imageOutDir.
OutPath(imageOutDir, FilePath, fileExt) ==
    LET inName == Base(FilePath)
        inFileExt == Ext(inName)
    IN  imageOutDir \o <<"/">> \o SubSeq(inName, 1, Len(inName) - Len(inFileExt)) \o fileExt

\* image.Rect: the rectangle with the corners put in order.
Rect(x0, y0, x1, y1) == <<Min(x0, x1), Min(y0, y1), Max(x0, x1), Max(y0, y1)>>

\* Rectangle.Empty
Empty(r) == r[1] >= r[3] \/ r[2] >= r[4]

\* Rectangle.Intersect (the zero rectangle when the intersection is empty).
Intersect(r, s) ==
    LET t == <<Max(r[1], s[1]), Max(r[2], s[2]), Min(r[3], s[3]), Min(r[4], s[4])>>
    IN  IF Empty(t) THEN <<0, 0, 0, 0>> ELSE t

Bounds(img) == <<0, 0, img.w, img.h>>
Dx(r) == r[3] - r[1]
Dy(r) == r[4] - r[2]

\* The box is rounded but not intersected with the image bounds.
ClipRectNoIntersect(a, img) ==
    Rect(Round(a.Coords[1]), Round(a.Coords[2]), Round(a.Coords[3]), Round(a.Coords[4]))

\* Clip the bounding box to the image bounds (ir.go:90-92).
ClipRect(a, img) ==
    Intersect(Rect(Round(a.Coords[1]), Round(a.Coords[2]),
                   Round(a.Coords[3]), Round(a.Coords[4])),
              Bounds(img))

\* cropObjectsFromImage from annotation i (0-based) on: the crops and their
\* metadata, for an image that provides SubImage. The CropCoords string
\* "(x1,y1)(x2,y2)" is modelled by the rectangle it prints.
RECURSIVE cropObjects(_, _, _)
cropObjects(f, img, i) ==
    IF i >= Len(f.Annotations) THEN [crops |-> <<>>, annotatedFiles |-> <<>>]
    ELSE
      LET a == f.Annotations[i + 1]
          r == ClipRect(a, img)
          rest == cropObjects(f, img, i + 1)
      IN  IF Empty(r) THEN rest
          ELSE
            LET attrs == [k \in (DOMAIN a.Attributes) \cup {CropCoords} |->
                            IF k = CropCoords THEN StringV(r) ELSE a.Attributes[k]]
                fileData ==
                    [Annotations |->
                        <<[Attributes |-> attrs,
                           Coords |-> <<F(0), F(0), F(Dx(r)), F(Dy(r))>>,
                           Label |-> a.Label, id |-> a.id]>>,
                     FilePath |-> CropPath(f.FilePath, i),
                     fid |-> f.fid]
            IN  [crops |-> <<[w |-> Dx(r), h |-> Dy(r)]>> \o rest.crops,
                 annotatedFiles |-> <<fileData>> \o rest.annotatedFiles]

\* The scale factors are applied to the wrong axes.
scaleCoordsSwapped(f, width, height) ==
    [f EXCEPT !.Annotations =
        [i \in DOMAIN f.Annotations |->
            [f.Annotations[i] EXCEPT !.Coords =
                [j \in 1..4 |-> IF j \in {1, 3}
                                THEN QMul(f.Annotations[i].Coords[j], height)
                                ELSE QMul(f.Annotations[i].Coords[j], width)]]]]

\* scaleCoords: Coords[0] and Coords[2] times width, the others times height.
scaleCoords(f, width, height) ==
    [f EXCEPT !.Annotations =
        [i \in DOMAIN f.Annotations |->
            [f.Annotations[i] EXCEPT !.Coords =
                [j \in 1..4 |-> IF j \in {1, 3}
                                THEN QMul(f.Annotations[i].Coords[j], width)
                                ELSE QMul(f.Annotations[i].Coords[j], height)]]]]

\* The derived side is truncated instead of rounded.
DeriveSideTruncated(side, num, den) == (side * num) \div den

\* int(math.Round(float64(side) * (float64(num) / float64(den))))
DeriveSide(side, num, den) == Round(QMul(F(side), Q(num, den)))

\* resizeImage (image utilities): the resized image (taken to have the
\* dimensions asked of imaging.Resize), the filter chosen and the scale
\* factors.
resizeImage(img, longerSide0, shorterSide0) ==
    LET isLandscape == ~(img.h > img.w)
        imgLonger == IF isLandscape THEN img.w ELSE img.h
        imgShorter == IF isLandscape THEN img.h ELSE img.w
        longerSide == IF longerSide0 <= 0
                      THEN DeriveSide(shorterSide0, imgLonger, imgShorter)
                      ELSE longerSide0
        shorterSide == IF longerSide0 <= 0 THEN shorterSide0
                       ELSE IF shorterSide0 <= 0
                            THEN DeriveSide(longerSide0, imgShorter, imgLonger)
                            ELSE shorterSide0
        filter == IF longerSide * shorterSide < img.w * img.h
                  THEN "downsamplingFilter" ELSE "upsamplingFilter"
    IN  IF isLandscape
        THEN [resized |-> [w |-> longerSide, h |-> shorterSide], filter |-> filter,
              scaleWidth |-> Q(longerSide, imgLonger),
              scaleHeight |-> Q(shorterSide, imgShorter)]
        ELSE [resized |-> [w |-> shorterSide, h |-> longerSide], filter |-> filter,
              scaleWidth |-> Q(shorterSide, imgShorter),
              scaleHeight |-> Q(longerSide, imgLonger)]

----------------------------------------------------------------------------
(* The files on disk.                                                      *)

\* An image file: its pixel size, whether image.Decode succeeds on it and
\* whether the decoded image type provides SubImage.
Img(w, h) == [w |-> w, h |-> h, ok |-> TRUE, sub |-> TRUE]
Corrupt == [w |-> 0, h |-> 0, ok |-> FALSE, sub |-> FALSE]

P(x) == <<"in", "/">> \o x

\* The files ProcessImages is run on, each with the image at its path. x.jpg
\* and x.png lie in different directories and share their base name; y.jpg
\* does not decode; the output files named z and z_01 cannot be written.
FilePool ==
    { [FilePath |-> P(<<"a", "/", "x", ".", "jpg">>), img |-> Img(4, 2),
       Annotations |-> << Annotation(NoAttrs, Box(0, 0, 2, 2), "cat"),
                          Annotation(NoAttrs, Box(5, 0, 7, 2), "dog"),
                          Annotation(NoAttrs, Box(3, 1, 6, 3), "cat") >>],
      [FilePath |-> P(<<"b", "/", "x", ".", "png">>), img |-> Img(2, 3),
       Annotations |-> << Annotation([k \in {Confidence} |-> FloatV(QHalf)],
                                     <<QHalf, F(0), Q(3, 2), F(3)>>, "dog") >>],
      [FilePath |-> P(<<"y", ".", "jpg">>), img |-> Corrupt,
       Annotations |-> << Annotation(NoAttrs, Box(0, 0, 1, 1), "cat") >>],
      [FilePath |-> P(<<"z", ".", "jpg">>), img |-> Img(2, 2),
       Annotations |-> << Annotation(NoAttrs, Box(0, 0, 1, 1), "cat"),
                          Annotation(NoAttrs, Box(1, 1, 2, 2), "dog") >>] }

\* The files of the single-image runs: the 200x100 image of the resize
\* example and its portrait twin, images whose sides do not divide evenly, a
\* corrupt one and one whose type lacks SubImage.
ResizePool ==
    { [FilePath |-> P(<<"l", ".", "jpg">>), img |-> Img(200, 100),
       Annotations |-> << Annotation(NoAttrs, Box(20, 20, 60, 60), "cat") >>],
      [FilePath |-> P(<<"p", ".", "jpg">>), img |-> Img(100, 200),
       Annotations |-> << Annotation(NoAttrs, Box(20, 20, 60, 60), "cat"),
                          Annotation(NoAttrs, Box(0, 100, 100, 200), "dog") >>],
      [FilePath |-> P(<<"s", ".", "jpg">>), img |-> Img(3, 2),
       Annotations |-> << Annotation(NoAttrs, Box(0, 0, 3, 1), "cat"),
                          Annotation(NoAttrs, Box(1, 1, 2, 2), "dog") >>],
      [FilePath |-> P(<<"t", ".", "png">>), img |-> Img(3, 5),
       Annotations |-> << Annotation(NoAttrs, Box(1, 1, 3, 4), "cat") >>],
      [FilePath |-> P(<<"q", ".", "jpg">>), img |-> Img(4, 4),
       Annotations |-> << Annotation(NoAttrs, Box(0, 0, 4, 4), "cat") >>],
      [FilePath |-> P(<<"n", ".", "jpg">>), img |-> [Img(4, 2) EXCEPT !.sub = FALSE],
       Annotations |-> << Annotation(NoAttrs, Box(0, 0, 2, 2), "cat") >>],
      [FilePath |-> P(<<"y", ".", "jpg">>), img |-> Corrupt,
       Annotations |-> << Annotation(NoAttrs, Box(0, 0, 1, 1), "cat") >>],
      [FilePath |-> P(<<"z", ".", "jpg">>), img |-> Img(2, 2),
       Annotations |-> << Annotation(NoAttrs, Box(0, 0, 1, 1), "cat"),
                          Annotation(NoAttrs, Box(1, 1, 2, 2), "dog") >>] }

Disk == FilePool \cup ResizePool

\* loadImage: the image at path.
loadImage(path) == (CHOOSE e \in Disk : e.FilePath = path).img

UnwritableNames == { <<"z">>, <<"z", "_", "0", "1">> }

\* saveImage fails when the file cannot be created.
saveImageFails(outPath) ==
    LET name == Base(outPath)
    IN  SubSeq(name, 1, Len(name) - Len(Ext(name))) \in UnwritableNames

\* The dataset a parser returns for the pool entries es.
ParsedFiles(es) ==
    [f \in 1..Len(es) |->
        [FilePath |-> es[f].FilePath, fid |-> f,
         Annotations |-> [j \in 1..Len(es[f].Annotations) |->
                             [es[f].Annotations[j] EXCEPT !.id = 10 * f + j]]]]

\* The sequences of at most n distinct elements of S.
DistinctSeqs(S, n) ==
    UNION { {q \in [1..k -> S] : \A i, j \in 1..k : q[i] = q[j] => i = j} : k \in 0..n }

----------------------------------------------------------------------------
(* ProcessImages (ir.go:356-467) and processImage (ir.go:472-547).         *)

ResamplingFilters == {"nearest", "box", "linear", "gaussian", "lanczos"}

\* strings.ToLower, on the encoding names drawn.
ToLower(e) == CASE e = "JPG" -> "jpg" [] e = "PNG" -> "png" [] OTHER -> e

\* An unsupported encoding is written as JPEG.
FileExtDefaultJpg(encoding) ==
    IF ToLower(encoding) = "png" THEN <<".", "png">> ELSE <<".", "jpg">>

\* The output file extension for the encoding, <<>> when it is unsupported.
FileExt(encoding) ==
    CASE ToLower(encoding) \in {"jpg", "jpeg"} -> <<".", "jpg">>
      [] ToLower(encoding) = "png" -> <<".", "png">>
      [] OTHER -> <<>>

\* A negative side length counts as a request to resize.
doResizeImagesNonZero == cfg.longerSide # 0 \/ cfg.shorterSide # 0

doResizeImages == cfg.longerSide > 0 \/ cfg.shorterSide > 0

\* numTasks := 2 * runtime.NumCPU(), at most len(*data)
NumTasks(n) == Min(2 * NumCPU, n)

numTasks == Len(workers)

\* The queues hold one element more.
QueueCapOneMore == 2 * numTasks + 1

\* make(chan *AnnotatedFile, 2*numTasks)
QueueCap == 2 * numTasks

Idle == [pc |-> "idle", d |-> 0, images |-> <<>>, imageData |-> <<>>, i |-> 0]
Finished == [Idle EXCEPT !.pc = "done"]

LoadError(f) == [fid |-> f.fid, step |-> "load"]
CropError(f) == [fid |-> f.fid, step |-> "crop"]
SaveError(f) == [fid |-> f.fid, step |-> "save"]

\* A report replaces whatever the slot holds.
trySendErrorOverwrite(ch, err) == <<err>>

\* A report is dropped even when the slot is free.
trySendErrorDrop(ch, err) == ch

\* select { case errors <- err: default: } on the channel of capacity 1.
trySendError(ch, err) == IF Len(ch) < 1 THEN Append(ch, err) ELSE ch

\* The file is moved to the end of the dataset when it is stored.
StoreFileAtEnd(d, idx, f) ==
    [j \in 1..Len(d) |-> IF j < idx THEN d[j] ELSE IF j < Len(d) THEN d[j + 1] ELSE f]

\* The write through the pointer &(*data)[i].
StoreFile(d, idx, f) == [d EXCEPT ![idx] = f]

\* The path is updated, the coordinates are left as they were.
UpdateFilePathOnly(f, outPath, doResize, scaleWidth, scaleHeight) ==
    [f EXCEPT !.FilePath = outPath]

\* data.FilePath = outPath; if doResizeImage { data.scaleCoords(...) }
UpdateFile(f, outPath, doResize, scaleWidth, scaleHeight) ==
    IF doResize
    THEN scaleCoords([f EXCEPT !.FilePath = outPath], scaleWidth, scaleHeight)
    ELSE [f EXCEPT !.FilePath = outPath]

\* The loop body with the path updated and the coordinates rescaled before
\* the image is saved: a failed save leaves the updated record behind.
ProcessOneUpdateFirst(wk, w) ==
    \E img \in {wk.images[wk.i + 1]},
       f \in {IF cfg.doCropObjects THEN wk.imageData[wk.i + 1] ELSE data[wk.d]} :
    \E rs \in {IF doResizeImages
                THEN resizeImage(img, cfg.longerSide, cfg.shorterSide)
                ELSE [resized |-> img, filter |-> "none",
                      scaleWidth |-> QZero, scaleHeight |-> QZero]},
       outPath \in {OutPath(cfg.imageOutDir, f.FilePath, FileExt(cfg.encoding))} :
    \E g \in {UpdateFile(f, outPath, doResizeImages, rs.scaleWidth, rs.scaleHeight)} :
        IF saveImageFails(outPath)
        THEN /\ errors' = trySendError(errors, SaveError(f))
             /\ reported' = Append(reported, SaveError(f))
             /\ workers' = [workers EXCEPT ![w] = Idle]
             /\ data' = IF cfg.doCropObjects THEN data ELSE StoreFile(data, wk.d, g)
             /\ UNCHANGED saved
        ELSE  /\ saved' = saved \cup
                    { [path |-> outPath, fid |-> f.fid,
                       ann |-> IF cfg.doCropObjects THEN f.Annotations[1].id ELSE 0,
                       w |-> rs.resized.w, h |-> rs.resized.h,
                       srcW |-> img.w, srcH |-> img.h, filter |-> rs.filter] }
              /\ IF cfg.doCropObjects
                 THEN /\ workers' = [workers EXCEPT ![w] =
                             [wk EXCEPT !.pc = "publish", !.imageData[wk.i + 1] = g]]
                      /\ UNCHANGED data
                 ELSE /\ data' = StoreFile(data, wk.d, g)
                      /\ workers' = [workers EXCEPT ![w] = Idle]
              /\ UNCHANGED <<errors, reported>>

\* The body of the loop over images (ir.go:512-546) for image i (0-based) of
\* worker record wk, up to the send on croppedData: resize, save, update.
\* Gives the worker record, the dataset, the error slot and the histories.
\* Each intermediate value is bound by \E over a singleton, which TLC evaluates
\* once, where a LET definition is evaluated at every use.
ProcessOne(wk, w) ==
    \E img \in {wk.images[wk.i + 1]},
       f \in {IF cfg.doCropObjects THEN wk.imageData[wk.i + 1] ELSE data[wk.d]} :
    \E rs \in {IF doResizeImages
                THEN resizeImage(img, cfg.longerSide, cfg.shorterSide)
                ELSE [resized |-> img, filter |-> "none",
                      scaleWidth |-> QZero, scaleHeight |-> QZero]},
       outPath \in {OutPath(cfg.imageOutDir, f.FilePath, FileExt(cfg.encoding))} :
        IF saveImageFails(outPath)
        THEN /\ errors' = trySendError(errors, SaveError(f))
             /\ reported' = Append(reported, SaveError(f))
             /\ workers' = [workers EXCEPT ![w] = Idle]
             /\ UNCHANGED <<data, saved>>
        ELSE
          \E g \in {UpdateFile(f, outPath, doResizeImages, rs.scaleWidth, rs.scaleHeight)} :
              /\ saved' = saved \cup
                    { [path |-> outPath, fid |-> f.fid,
                       ann |-> IF cfg.doCropObjects THEN f.Annotations[1].id ELSE 0,
                       w |-> rs.resized.w, h |-> rs.resized.h,
                       srcW |-> img.w, srcH |-> img.h, filter |-> rs.filter] }
              /\ IF cfg.doCropObjects
                 THEN /\ workers' = [workers EXCEPT ![w] =
                             [wk EXCEPT !.pc = "publish", !.imageData[wk.i + 1] = g]]
                      /\ UNCHANGED data
                 ELSE /\ data' = StoreFile(data, wk.d, g)
                      /\ workers' = [workers EXCEPT ![w] = Idle]
              /\ UNCHANGED <<errors, reported>>

\* ProcessImages up to the feeding loop: the early return, the validation of
\* the filter and encoding names, the channels and the goroutines.
Start ==
    /\ pc = "ProcessImages"
    /\ prev' = data
    /\ IF ~doResizeImages /\ ~cfg.doCropObjects
       THEN /\ ret' = nil /\ pc' = "done"
            /\ UNCHANGED <<workQueue, croppedDataCh, workers, collector>>
       ELSE IF cfg.downsamplingFilter \notin ResamplingFilters
       THEN /\ ret' = <<[config |-> "unknown resampling filter", name |-> cfg.downsamplingFilter]>>
            /\ pc' = "done"
            /\ UNCHANGED <<workQueue, croppedDataCh, workers, collector>>
       ELSE IF cfg.upsamplingFilter \notin ResamplingFilters
       THEN /\ ret' = <<[config |-> "unknown resampling filter", name |-> cfg.upsamplingFilter]>>
            /\ pc' = "done"
            /\ UNCHANGED <<workQueue, croppedDataCh, workers, collector>>
       ELSE IF FileExt(cfg.encoding) = <<>>
       THEN /\ ret' = <<[config |-> "unsupported output encoding", name |-> cfg.encoding]>>
            /\ pc' = "done"
            /\ UNCHANGED <<workQueue, croppedDataCh, workers, collector>>
       ELSE /\ workers' = [w \in 1..NumTasks(Len(data)) |-> Idle]
            /\ collector' = IF cfg.doCropObjects THEN "run" ELSE "none"
            /\ pc' = "feed"
            /\ UNCHANGED <<workQueue, croppedDataCh, ret>>
    /\ UNCHANGED <<data, cfg, orig, panicked, croppedData, errors, feedIdx, saved, reported>>
    /\ UNCHANGED splitVars

\* workQueue <- &(*data)[i]: blocks while the queue is full.
Feed ==
    /\ pc = "feed"
    /\ feedIdx < Len(data)
    /\ Len(workQueue.buf) < QueueCap
    /\ workQueue' = [workQueue EXCEPT !.buf = Append(@, feedIdx + 1)]
    /\ feedIdx' = feedIdx + 1
    /\ UNCHANGED <<data, cfg, pc, orig, prev, panicked, croppedDataCh, croppedData,
                   errors, workers, collector, ret, saved, reported>>
    /\ UNCHANGED splitVars

\* The caller goes on to wait without closing the work queue.
CloseWorkQueueSkipped ==
    /\ pc = "feed"
    /\ feedIdx = Len(data)
    /\ pc' = "wait"
    /\ UNCHANGED <<data, cfg, orig, prev, panicked, workQueue, croppedDataCh, croppedData,
                   errors, workers, collector, feedIdx, ret, saved, reported>>
    /\ UNCHANGED splitVars

\* close(workQueue)
CloseWorkQueue ==
    /\ pc = "feed"
    /\ feedIdx = Len(data)
    /\ workQueue' = [workQueue EXCEPT !.closed = TRUE]
    /\ pc' = "wait"
    /\ UNCHANGED <<data, cfg, orig, prev, panicked, croppedDataCh, croppedData,
                   errors, workers, collector, feedIdx, ret, saved, reported>>
    /\ UNCHANGED splitVars

\* A worker reads the next file and leaves it in the queue.
DequeuePeek(w) ==
    /\ workers[w].pc = "idle"
    /\ Len(workQueue.buf) > 0
    /\ workers' = [workers EXCEPT ![w] = [Idle EXCEPT !.pc = "process", !.d = Head(workQueue.buf)]]
    /\ UNCHANGED <<data, cfg, pc, orig, prev, panicked, workQueue, croppedDataCh, croppedData,
                   errors, collector, feedIdx, ret, saved, reported>>
    /\ UNCHANGED splitVars

\* for d := range workQueue: a worker takes the next file.
Dequeue(w) ==
    /\ workers[w].pc = "idle"
    /\ Len(workQueue.buf) > 0
    /\ workers' = [workers EXCEPT ![w] = [Idle EXCEPT !.pc = "process", !.d = Head(workQueue.buf)]]
    /\ workQueue' = [workQueue EXCEPT !.buf = Tail(@)]
    /\ UNCHANGED <<data, cfg, pc, orig, prev, panicked, croppedDataCh, croppedData,
                   errors, collector, feedIdx, ret, saved, reported>>
    /\ UNCHANGED splitVars

\* The range loop ends on the closed, drained queue; wg.Done().
WorkerExit(w) ==
    /\ workers[w].pc = "idle"
    /\ Len(workQueue.buf) = 0
    /\ workQueue.closed
    /\ workers' = [workers EXCEPT ![w] = Finished]
    /\ UNCHANGED <<data, cfg, pc, orig, prev, panicked, workQueue, croppedDataCh,
                   croppedData, errors, collector, feedIdx, ret, saved, reported>>
    /\ UNCHANGED splitVars

\* processImage from the load to the first save: load, crop (or take the
\* image as it is), then the loop body for the first image.
Process(w) ==
    /\ workers[w].pc = "process"
    /\ \E f \in {data[workers[w].d]} :
       \E img \in {loadImage(f.FilePath)} :
           IF ~img.ok
           THEN /\ errors' = trySendError(errors, LoadError(f))
                /\ reported' = Append(reported, LoadError(f))
                /\ workers' = [workers EXCEPT ![w] = Idle]
                /\ UNCHANGED <<data, saved>>
           ELSE IF cfg.doCropObjects /\ ~img.sub
           THEN /\ errors' = trySendError(errors, CropError(f))
                /\ reported' = Append(reported, CropError(f))
                /\ workers' = [workers EXCEPT ![w] = Idle]
                /\ UNCHANGED <<data, saved>>
           ELSE
             \E c \in {IF cfg.doCropObjects THEN cropObjects(f, img, 0)
                        ELSE [crops |-> <<[w |-> img.w, h |-> img.h]>>,
                              annotatedFiles |-> <<>>]} :
             \E wk \in {[workers[w] EXCEPT !.images = c.crops,
                                            !.imageData = c.annotatedFiles]} :
                 IF Len(c.crops) = 0
                 THEN /\ workers' = [workers EXCEPT ![w] = Idle]
                      /\ UNCHANGED <<data, saved, errors, reported>>
                 ELSE ProcessOne(wk, w)
    /\ UNCHANGED <<cfg, pc, orig, prev, panicked, workQueue, croppedDataCh,
                   croppedData, collector, feedIdx, ret>>
    /\ UNCHANGED splitVars

\* croppedData <- data: blocks while the channel is full.
Publish(w) ==
    /\ workers[w].pc = "publish"
    /\ Len(croppedDataCh.buf) < QueueCap
    /\ LET wk == workers[w]
       IN  /\ croppedDataCh' = [croppedDataCh EXCEPT !.buf = Append(@, wk.imageData[wk.i + 1])]
           /\ workers' = [workers EXCEPT ![w] =
                  IF wk.i + 1 < Len(wk.images)
                  THEN [wk EXCEPT !.pc = "next", !.i = wk.i + 1]
                  ELSE Idle]
    /\ UNCHANGED <<data, cfg, pc, orig, prev, panicked, workQueue, croppedData,
                   errors, collector, feedIdx, ret, saved, reported>>
    /\ UNCHANGED splitVars

\* The loop body for a further crop.
ProcessNext(w) ==
    /\ workers[w].pc = "next"
    /\ ProcessOne(workers[w], w)
    /\ UNCHANGED <<cfg, pc, orig, prev, panicked, workQueue, croppedDataCh,
                   croppedData, collector, feedIdx, ret>>
    /\ UNCHANGED splitVars

\* The collector takes a record off the queue and does not append it.
CollectSkip ==
    /\ collector = "run"
    /\ Len(croppedDataCh.buf) > 0
    /\ croppedDataCh' = [croppedDataCh EXCEPT !.buf = Tail(@)]
    /\ UNCHANGED <<data, cfg, pc, orig, prev, panicked, workQueue, errors, workers,
                   collector, croppedData, feedIdx, ret, saved, reported>>
    /\ UNCHANGED splitVars

\* for d := range croppedDataCh { croppedData = append(croppedData, *d) }
Collect ==
    /\ collector = "run"
    /\ Len(croppedDataCh.buf) > 0
    /\ croppedData' = Append(croppedData, Head(croppedDataCh.buf))
    /\ croppedDataCh' = [croppedDataCh EXCEPT !.buf = Tail(@)]
    /\ UNCHANGED <<data, cfg, pc, orig, prev, panicked, workQueue, errors, workers,
                   collector, feedIdx, ret, saved, reported>>
    /\ UNCHANGED splitVars

\* The collector's loop ends on the closed, drained channel; wgAppend.Done().
CollectorExit ==
    /\ collector = "run"
    /\ Len(croppedDataCh.buf) = 0
    /\ croppedDataCh.closed
    /\ collector' = "done"
    /\ UNCHANGED <<data, cfg, pc, orig, prev, panicked, workQueue, croppedDataCh,
                   croppedData, errors, workers, feedIdx, ret, saved, reported>>
    /\ UNCHANGED splitVars

\* The caller goes on without waiting for the workers.
WaitWorkersEarly ==
    /\ pc = "wait"
    /\ pc' = IF cfg.doCropObjects THEN "closeCropped" ELSE "checkErrors"
    /\ UNCHANGED <<data, cfg, orig, prev, panicked, workQueue, croppedDataCh,
                   croppedData, errors, workers, collector, feedIdx, ret, saved, reported>>
    /\ UNCHANGED splitVars

\* wg.Wait() returns once every worker is done.
WaitWorkers ==
    /\ pc = "wait"
    /\ \A w \in DOMAIN workers : workers[w].pc = "done"
    /\ pc' = IF cfg.doCropObjects THEN "closeCropped" ELSE "checkErrors"
    /\ UNCHANGED <<data, cfg, orig, prev, panicked, workQueue, croppedDataCh,
                   croppedData, errors, workers, collector, feedIdx, ret, saved, reported>>
    /\ UNCHANGED splitVars

\* close(croppedDataCh)
CloseCropped ==
    /\ pc = "closeCropped"
    /\ croppedDataCh' = [croppedDataCh EXCEPT !.closed = TRUE]
    /\ pc' = "waitAppend"
    /\ UNCHANGED <<data, cfg, orig, prev, panicked, workQueue, croppedData, errors,
                   workers, collector, feedIdx, ret, saved, reported>>
    /\ UNCHANGED splitVars

\* wgAppend.Wait(); *data = croppedData
WaitAppend ==
    /\ pc = "waitAppend"
    /\ collector = "done"
    /\ data' = croppedData
    /\ pc' = "checkErrors"
    /\ UNCHANGED <<cfg, orig, prev, panicked, workQueue, croppedDataCh, croppedData,
                   errors, workers, collector, feedIdx, ret, saved, reported>>
    /\ UNCHANGED splitVars

\* close(errors); if len(errors) > 0 { return <-errors }; return nil
CheckErrors ==
    /\ pc = "checkErrors"
    /\ ret' = IF Len(errors) > 0 THEN <<errors[1]>> ELSE nil
    /\ pc' = "done"
    /\ UNCHANGED <<data, cfg, orig, prev, panicked, workQueue, croppedDataCh,
                   croppedData, errors, workers, collector, feedIdx, saved, reported>>
    /\ UNCHANGED splitVars

NextPI ==
    \/ Start
    \/ Feed
    \/ CloseWorkQueue
    \/ \E w \in DOMAIN workers : Dequeue(w)
    \/ \E w \in DOMAIN workers : Process(w)
    \/ \E w \in DOMAIN workers : Publish(w)
    \/ \E w \in DOMAIN workers : ProcessNext(w)
    \/ \E w \in DOMAIN workers : WorkerExit(w)
    \/ Collect
    \/ CollectorExit
    \/ WaitWorkers
    \/ CloseCropped
    \/ WaitAppend
    \/ CheckErrors

\* The arguments of ProcessImages. jpegQuality only parameterises the encoder
\* and is left out.
PIParams ==
    [imageOutDir : {<<"out">>}, longerSide : {0, 2}, shorterSide : {0},
     downsamplingFilter : {"box"}, upsamplingFilter : {"linear"},
     encoding : {"jpg"}, doCropObjects : BOOLEAN]
    \cup
    [imageOutDir : {<<"out">>}, longerSide : {2}, shorterSide : {0},
     downsamplingFilter : {"box", "cubic"}, upsamplingFilter : {"linear", "bilinear"},
     encoding : {"jpg", "PNG", "bmp"}, doCropObjects : {FALSE}]
    \cup
    [imageOutDir : {<<"out">>}, longerSide : {0}, shorterSide : {0},
     downsamplingFilter : {"box", "cubic"}, upsamplingFilter : {"linear", "bilinear"},
     encoding : {"jpg", "bmp"}, doCropObjects : {TRUE}]
    \cup
    [imageOutDir : {<<"out">>, <<>>}, longerSide : {0, -1}, shorterSide : {0, -1},
     downsamplingFilter : {"box", "cubic"}, upsamplingFilter : {"linear"},
     encoding : {"jpg", "bmp"}, doCropObjects : {FALSE}]

PIDatasets == {ParsedFiles(es) : es \in DistinctSeqs(FilePool, MaxJobs)}

InitProcessing ==
    /\ pc = "ProcessImages"
    /\ orig = data
    /\ prev = data
    /\ panicked = FALSE
    /\ NotProcessing
    /\ NotSplit

InitPI ==
    /\ data \in PIDatasets
    /\ cfg \in PIParams
    /\ InitProcessing

SpecPI == InitPI /\ [][NextPI]_vars

\* Single-image runs: every target size, with and without cropping.
ResizeParams ==
    [imageOutDir : {<<"out">>},
     longerSide : {0, 2, 3, 100}, shorterSide : {0, 1, 2, 50},
     downsamplingFilter : {"box"}, upsamplingFilter : {"linear"},
     encoding : {"jpg", "PNG"}, doCropObjects : BOOLEAN]

ResizeDatasets == {ParsedFiles(<<e>>) : e \in ResizePool}

InitResize ==
    /\ data \in ResizeDatasets
    /\ cfg \in ResizeParams
    /\ InitProcessing

SpecResize == InitResize /\ [][NextPI]_vars

----------------------------------------------------------------------------
(* Properties of ProcessImages.                                            *)

\* ProcessImages got past the validation of its arguments and has returned.
Returned == pc = "done" /\ workQueue.closed

\* The files for which a failure was reported.
FailedFiles == {reported[k].fid : k \in DOMAIN reported}

\* The image a worker saved for the file of id fid (ann = 0), or for the crop
\* of the annotation of id ann.
SavesOf(fid, ann) == {s \in saved : s.fid = fid /\ s.ann = ann}

\* The coordinates c multiplied by the scale factors from the source image to
\* the image saved as s, when resizing is enabled.
Rescaled(c, s) ==
    IF doResizeImages
    THEN [j \in 1..4 |-> IF j \in {1, 3} THEN QMul(c[j], Q(s.w, s.srcW))
                                       ELSE QMul(c[j], Q(s.h, s.srcH))]
    ELSE c

Coords(f) == [j \in DOMAIN f.Annotations |-> f.Annotations[j].Coords]
Ids(f) == [j \in DOMAIN f.Annotations |-> f.Annotations[j].id]

\* C2: no two distinct images saved during one run have the same output
\* path. The code derives the output name from the base name alone, so two
\* files that differ in directory or extension only are written to one path.
C2_NoTwoSavesOfOnePath ==
    \A s, t \in saved : s.path = t.path => (s.fid = t.fid /\ s.ann = t.ann)

\* C3: without cropping the dataset keeps its length and its order in every
\* state of every run: the entry at index i is the input file of index i,
\* with its annotations in their order.
C3_OrderKeptWithoutCropping ==
    ~cfg.doCropObjects =>
        /\ Len(data) = Len(orig)
        /\ \A i \in DOMAIN data :
              data[i].fid = orig[i].fid /\ Ids(data[i]) = Ids(orig[i])

\* Witness of C3: a run without cropping over two files has returned an
\* error; the first file failed and is unchanged, the second was updated.
C3_Witness ==
    /\ pc = "done" /\ ~cfg.doCropObjects /\ workQueue.closed
    /\ Len(data) = 2
    /\ ret # nil
    /\ data[1] = orig[1]
    /\ data[2].FilePath # orig[2].FilePath

\* The crops cropObjectsFromImage yields for file f: the annotations whose
\* box, with its corners rounded and put in order, meets the image.
CropRect(a, img) ==
    LET x0 == Min(Round(a.Coords[1]), Round(a.Coords[3]))
        x1 == Max(Round(a.Coords[1]), Round(a.Coords[3]))
        y0 == Min(Round(a.Coords[2]), Round(a.Coords[4]))
        y1 == Max(Round(a.Coords[2]), Round(a.Coords[4]))
    IN  <<Max(x0, 0), Max(y0, 0), Min(x1, img.w), Min(y1, img.h)>>

HasCrop(a, img) ==
    LET r == CropRect(a, img) IN r[1] < r[3] /\ r[2] < r[4]

\* File f of the parsed dataset was saved and updated: without cropping its
\* entry has the output path and the rescaled coordinates; with cropping
\* each of its crops is in the dataset, saved, under its output path.
FileDone(f) ==
    IF cfg.doCropObjects
    THEN \A a \in Range(f.Annotations) :
            HasCrop(a, loadImage(f.FilePath)) =>
                \E i \in DOMAIN data :
                    /\ data[i].fid = f.fid /\ Ids(data[i]) = <<a.id>>
                    /\ \E s \in SavesOf(f.fid, a.id) :
                          /\ data[i].FilePath = s.path
                          /\ Coords(data[i]) =
                                <<Rescaled(<<F(0), F(0), F(s.srcW), F(s.srcH)>>, s)>>
    ELSE \E s \in SavesOf(f.fid, 0) :
            /\ data[f.fid].FilePath = s.path
            /\ s.path = OutPath(cfg.imageOutDir, f.FilePath, FileExt(cfg.encoding))
            /\ Coords(data[f.fid]) = [j \in DOMAIN f.Annotations |->
                                        Rescaled(f.Annotations[j].Coords, s)]

\* C4: when exactly one file of the dataset fails, then on return every other
\* file has been saved, has its path set to its output path and its
\* coordinates rescaled, and the error returned is the failed file's, the only
\* one reported.
C4_OneFailureOthersDone ==
    (pc = "done" /\ Cardinality(FailedFiles) = 1) =>
        /\ Len(reported) = 1
        /\ ret = <<reported[1]>>
        /\ \A i \in DOMAIN orig : i \notin FailedFiles => FileDone(orig[i])

\* Witness of C4: a run with resizing over two files of which exactly one
\* failed has returned; the other file was saved and rescaled.
C4_Witness ==
    /\ pc = "done" /\ Cardinality(FailedFiles) = 1
    /\ Len(orig) = 2
    /\ doResizeImages
    /\ \E s \in saved : s.fid \notin FailedFiles /\ s.w # s.srcW

C6_PathAndCoordsConsistent ==
    pc = "done" =>
        \A i \in DOMAIN data :
            LET f == data[i]
            IN  IF Returned /\ cfg.doCropObjects
                THEN /\ Len(f.Annotations) = 1
                     /\ \E s \in SavesOf(f.fid, f.Annotations[1].id) :
                          /\ f.FilePath = s.path
                          /\ Coords(f) = <<Rescaled(<<F(0), F(0), F(s.srcW), F(s.srcH)>>, s)>>
                ELSE \/ \E s \in SavesOf(f.fid, 0) :
                          /\ f.FilePath = s.path
                          /\ Coords(f) = [j \in DOMAIN orig[i].Annotations |->
                                            Rescaled(orig[i].Annotations[j].Coords, s)]
                     \/ /\ SavesOf(f.fid, 0) = {}
                        /\ f.FilePath = orig[i].FilePath
                        /\ Coords(f) = Coords(orig[i])

\* Witness of C6: a run with resizing and without cropping has returned an
\* error; one file was saved and has other coordinates than parsed, one
\* failed and is as parsed.
C6_Witness ==
    /\ pc = "done" /\ ret # nil /\ doResizeImages /\ ~cfg.doCropObjects
    /\ \E i, j \in DOMAIN data :
          /\ SavesOf(data[i].fid, 0) # {}
          /\ Coords(data[i]) # Coords(orig[i])
          /\ data[j] = orig[j]
          /\ data[j].fid \in FailedFiles

\* The (file, annotation) pairs of the parsed dataset that have a crop.
CropPairs ==
    {p \in UNION {{<<f, j>> : j \in DOMAIN orig[f].Annotations} : f \in DOMAIN orig} :
        HasCrop(orig[p[1]].Annotations[p[2]], loadImage(orig[p[1]].FilePath))}

\* C7: with cropping and no failure, on return the dataset holds exactly one
\* single-annotation file for each (file, annotation) pair whose rounded box
\* meets the image and nothing else; the derived annotation has the source
\* label and, when no resize is requested, the coordinates (0, 0, width,
\* height) of its clipped rectangle; no source file is left.
C7_ExactlyTheCrops ==
    (pc = "done" /\ cfg.doCropObjects /\ workQueue.closed /\ reported = <<>>) =>
        /\ Len(data) = Cardinality(CropPairs)
        /\ \A p \in CropPairs :
              LET a == orig[p[1]].Annotations[p[2]]
                  r == CropRect(a, loadImage(orig[p[1]].FilePath))
              IN  \E i \in DOMAIN data :
                     /\ data[i].fid = p[1]
                     /\ Ids(data[i]) = <<a.id>>
                     /\ data[i].Annotations[1].Label = a.Label
                     /\ ~doResizeImages =>
                           Coords(data[i]) =
                               << <<F(0), F(0), F(r[3] - r[1]), F(r[4] - r[2])>> >>
        /\ \A i \in DOMAIN data :
              /\ Len(data[i].Annotations) = 1
              /\ \A f \in DOMAIN orig : data[i].FilePath # orig[f].FilePath

\* Witness of C7: a run with cropping, without resizing and without failure
\* over a file with three annotations, one of them outside the image, has
\* returned exactly two derived files for it.
C7_Witness ==
    /\ pc = "done" /\ cfg.doCropObjects /\ ~doResizeImages /\ reported = <<>>
    /\ \E f \in DOMAIN orig :
          /\ Len(orig[f].Annotations) = 3
          /\ Cardinality({p \in CropPairs : p[1] = f}) = 2
          /\ Cardinality({i \in DOMAIN data : data[i].fid = f}) = 2

\* n is an integer nearest to num / den.
IsNearest(n, num, den) == 2 * Abs(n * den - num) <= den

\* C8: in a run without cropping in which exactly one target length is 0, a
\* file that was saved has an image whose other side is the integer nearest to
\* the one the aspect ratio gives (the longer side being the width of a
\* landscape image and the height of a portrait one), and each annotation has
\* its x coordinates multiplied by new width / old width and its y coordinates
\* by new height / old height; the 200x100 image with longerSide = 100 is saved
\* as 100x50 and its annotation (20,20,60,60) becomes (10,10,30,30).
C8_DerivedSideAndRescale ==
    (pc = "done" /\ ~cfg.doCropObjects
        /\ ((cfg.longerSide > 0 /\ cfg.shorterSide = 0)
            \/ (cfg.longerSide = 0 /\ cfg.shorterSide > 0))) =>
        \A i \in DOMAIN data :
            orig[i].fid \notin FailedFiles =>
            LET img == loadImage(orig[i].FilePath)
            IN  \E s \in SavesOf(orig[i].fid, 0) :
                  LET long == IF img.w >= img.h THEN s.w ELSE s.h
                      short == IF img.w >= img.h THEN s.h ELSE s.w
                      imgLong == Max(img.w, img.h)
                      imgShort == Min(img.w, img.h)
                  IN  /\ s.srcW = img.w /\ s.srcH = img.h
                      /\ cfg.longerSide > 0 =>
                            /\ long = cfg.longerSide
                            /\ IsNearest(short, cfg.longerSide * imgShort, imgLong)
                      /\ cfg.shorterSide > 0 =>
                            /\ short = cfg.shorterSide
                            /\ IsNearest(long, cfg.shorterSide * imgLong, imgShort)
                      /\ \A j \in DOMAIN orig[i].Annotations :
                            LET c == orig[i].Annotations[j].Coords
                                d == data[i].Annotations[j].Coords
                            IN  /\ d[1] = QMul(c[1], Q(s.w, img.w))
                                /\ d[3] = QMul(c[3], Q(s.w, img.w))
                                /\ d[2] = QMul(c[2], Q(s.h, img.h))
                                /\ d[4] = QMul(c[4], Q(s.h, img.h))
                      /\ (img.w = 200 /\ img.h = 100 /\ cfg.longerSide = 100) =>
                            /\ s.w = 100 /\ s.h = 50
                            /\ \A j \in DOMAIN orig[i].Annotations :
                                  orig[i].Annotations[j].Coords = Box(20, 20, 60, 60) =>
                                      data[i].Annotations[j].Coords = Box(10, 10, 30, 30)

\* Witness of C8: the 200x100 image was resized with longerSide = 100 and
\* saved as 100x50, and its annotation is at (10,10,30,30).
C8_Witness ==
    /\ pc = "done" /\ ~cfg.doCropObjects
    /\ cfg.longerSide = 100 /\ cfg.shorterSide = 0
    /\ Len(data) = 1
    /\ loadImage(orig[1].FilePath).w = 200 /\ loadImage(orig[1].FilePath).h = 100
    /\ Coords(orig[1]) = <<Box(20, 20, 60, 60)>>
    /\ Coords(data[1]) = <<Box(10, 10, 30, 30)>>
    /\ \E s \in saved : s.w = 100 /\ s.h = 50

----------------------------------------------------------------------------
(* Split (ir.go:553-582).                                                  *)

\* int(x) of a float64 num/den: truncation towards zero.
TruncDiv(num, den) == IF num >= 0 THEN num \div den ELSE -((-num) \div den)

\* int(1.05*float64(percent)/100*float64(len(*data))): the capacity asked of
\* make for a dataset.
SplitCap(percent, n) == TruncDiv(105 * percent * n, 10000)

\* The value of sum before entry i of cumulativeSplits is visited.
SumBefore(cumulativeSplits, i) == IF i = 1 THEN 0 ELSE cumulativeSplits[i - 1]

\* The allocation loop panics (makeslice: cap out of range) at an entry whose
\* capacity is negative.
AllocPanics(cumulativeSplits, n) ==
    \E i \in DOMAIN cumulativeSplits :
        SplitCap(cumulativeSplits[i] - SumBefore(cumulativeSplits, i), n) < 0

\* if sum != 100 { return nil, error }
SumIsValid(sum) == sum = 100

\* A draw equal to the boundary falls into the bucket.
DrawBelowOrEqual(r, s) == r <= s

\* if r < s
DrawBelow(r, s) == r < s

\* The index of the dataset a file with draw r is appended to, 0 when no
\* entry of cumulativeSplits is greater than r.
Bucket(r, cumulativeSplits) ==
    LET hits == {i \in DOMAIN cumulativeSplits : DrawBelow(r, cumulativeSplits[i])}
    IN  IF hits = {} THEN 0 ELSE CHOOSE i \in hits : \A j \in hits : i <= j

\* The files of d, in order, whose draw puts them into dataset i.
RECURSIVE Bucketed(_, _, _, _, _)
Bucketed(d, rs, cumulativeSplits, i, k) ==
    IF k > Len(d) THEN <<>>
    ELSE (IF Bucket(rs[k], cumulativeSplits) = i THEN <<d[k]>> ELSE <<>>)
         \o Bucketed(d, rs, cumulativeSplits, i, k + 1)

\* Split for the draws rs: the datasets, the error and whether it panicked.
Split(d, cumulativeSplits, rs) ==
    IF AllocPanics(cumulativeSplits, Len(d))
    THEN [datasets |-> <<>>, err |-> nil, panic |-> TRUE, draws |-> <<>>]
    ELSE IF ~SumIsValid(SumBefore(cumulativeSplits, Len(cumulativeSplits) + 1))
    THEN [datasets |-> <<>>, panic |-> FALSE, draws |-> <<>>,
          err |-> <<[config |-> "the split percentages do not add up to 100",
                     name |-> ""]>>]
    ELSE [datasets |-> [i \in DOMAIN cumulativeSplits |->
                          Bucketed(d, rs, cumulativeSplits, i, 1)],
          err |-> nil, panic |-> FALSE, draws |-> rs]

\* The values rng.Intn(100) is taken to give: the ends of its range and the
\* values next to a boundary.
Draws == {0, 49, 50, 99}

\* The entries of the boundary lists.
SplitValues == {0, 50, 100, 150}

SplitLists == UNION {[1..k -> SplitValues] : k \in 0..MaxSplits}

SplitDatasets == {MkDataset([f \in 1..n |-> <<>>]) : n \in 0..MaxFiles}

InitSplit ==
    /\ data \in SplitDatasets
    /\ cfg \in [cumulativeSplits : SplitLists]
    /\ pc = "Split"
    /\ orig = data
    /\ prev = data
    /\ panicked = FALSE
    /\ NotProcessing
    /\ NotSplit

\* datasets, err = af.Split(cumulativeSplits)
CallSplit ==
    /\ pc = "Split"
    /\ \E rs \in [1..Len(data) -> Draws] :
          LET r == Split(data, cfg.cumulativeSplits, rs)
          IN  /\ datasets' = r.datasets
              /\ draws' = r.draws
              /\ ret' = r.err
              /\ panicked' = r.panic
              /\ pc' = IF r.panic THEN "panic" ELSE "split"
    /\ prev' = data
    /\ UNCHANGED <<data, cfg, orig, workQueue, croppedDataCh, croppedData, errors,
                   workers, collector, feedIdx, saved, reported>>

NextSplit == CallSplit

SpecSplit == InitSplit /\ [][NextSplit]_vars

----------------------------------------------------------------------------
(* Properties of Split.                                                    *)

\* The ids of the files of dataset d, in order.
Fids(d) == [k \in DOMAIN d |-> d[k].fid]

\* C11: whenever Split accepts the boundary list, it returns one dataset per
\* entry; every input file is in exactly one dataset, the first whose boundary
\* is greater than the file's draw; the datasets are pairwise disjoint, their
\* union is the input, and a dataset whose boundary equals the previous one is
\* empty.
C11_SplitPartitions ==
    (pc = "split" /\ ret = nil) =>
        LET b == cfg.cumulativeSplits
        IN  /\ Len(datasets) = Len(b)
            /\ Len(draws) = Len(data)
            /\ \A k \in DOMAIN data :
                  \E i \in DOMAIN b :
                      /\ draws[k] < b[i]
                      /\ \A j \in 1..(i - 1) : draws[k] >= b[j]
                      /\ data[k] \in Range(datasets[i])
                      /\ \A j \in DOMAIN b : j # i => data[k] \notin Range(datasets[j])
            /\ \A i \in DOMAIN b :
                  /\ Range(datasets[i]) \subseteq Range(data)
                  /\ Cardinality(Range(datasets[i])) = Len(datasets[i])
                  /\ (i > 1 /\ b[i] = b[i - 1]) => datasets[i] = <<>>

\* Witness of C11: three files were split over three boundaries of which the
\* second repeats the first; the middle dataset is empty, the others are not.
C11_Witness ==
    /\ pc = "split" /\ ret = nil
    /\ Len(data) = 3
    /\ cfg.cumulativeSplits = <<50, 50, 100>>
    /\ datasets[1] # <<>> /\ datasets[2] = <<>> /\ datasets[3] # <<>>
    /\ \E k \in DOMAIN data : draws[k] = 50 /\ data[k] \in Range(datasets[3])

\* C12: Split returns an error and no dataset, without a panic, for every
\* boundary list whose last entry is not 100 (the empty list included), and
\* returns one dataset per entry and no error for every list whose last entry
\* is 100. The code allocates the datasets before it checks the total and
\* panics on a list with a descending step.
C12_SplitFailsFast ==
    pc \in {"split", "panic"} =>
        LET b == cfg.cumulativeSplits
        IN  /\ ~panicked
            /\ IF b # <<>> /\ b[Len(b)] = 100
               THEN ret = nil /\ Len(datasets) = Len(b)
               ELSE ret # nil /\ datasets = <<>>

----------------------------------------------------------------------------
(* Further properties of ProcessImages.                                    *)

\* Resizing or cropping is requested with an unknown resampling filter name
\* or an unsupported encoding name.
InvalidConfig ==
    /\ cfg.longerSide > 0 \/ cfg.shorterSide > 0 \/ cfg.doCropObjects
    /\ \/ cfg.downsamplingFilter \notin {"nearest", "box", "linear", "gaussian", "lanczos"}
       \/ cfg.upsamplingFilter \notin {"nearest", "box", "linear", "gaussian", "lanczos"}
       \/ ToLower(cfg.encoding) \notin {"jpg", "jpeg", "png"}

\* C13: with resizing or cropping requested and an unknown filter or encoding
\* name, ProcessImages returns an error without ever starting a worker or the
\* collector, creating a queue, reading or writing an image, and the dataset
\* stays as it was.
C13_ConfigErrorNoEffect ==
    InvalidConfig =>
        /\ workers = <<>> /\ collector = "none"
        /\ workQueue = NoChan /\ croppedDataCh = NoChan /\ feedIdx = 0
        /\ saved = {} /\ reported = <<>> /\ errors = <<>>
        /\ data = orig
        /\ pc \in {"ProcessImages", "done"}
        /\ pc = "done" => (ret # nil /\ "config" \in DOMAIN ret[1])

\* Witness of C13: a call with cropping and the encoding bmp on two files has
\* returned.
C13_Witness ==
    /\ pc = "done"
    /\ cfg.doCropObjects /\ cfg.encoding = "bmp"
    /\ cfg.downsamplingFilter = "box" /\ cfg.upsamplingFilter = "linear"
    /\ Len(data) = 2
    /\ ret # nil

----------------------------------------------------------------------------
(* MapLabels (ir.go:133-169). Labels and rules are sequences of characters. *)

\* len(strings.Split(v, "="))
SplitCount(v) == Cardinality({i \in DOMAIN v : v[i] = "="}) + 1

\* A rule is rejected only when it has no separator.
MalformedNoSeparator(v) == SplitCount(v) < 2

\* if len(a) != 2
Malformed(v) == SplitCount(v) # 2

\* The position of the first "=" of v.
Separator(v) == CHOOSE i \in DOMAIN v : v[i] = "=" /\ \A j \in 1..(i - 1) : v[j] # "="

\* a[0] and a[1] of a := strings.Split(v, "=")
OldOf(v) == SubSeq(v, 1, Separator(v) - 1)
NewOf(v) ==
    LET rest == SubSeq(v, Separator(v) + 1, Len(v))
        more == {i \in DOMAIN rest : rest[i] = "="}
    IN  IF more = {} THEN rest
        ELSE SubSeq(rest, 1, (CHOOSE i \in more : \A j \in more : i <= j) - 1)

HasPrefix(s, o) == Len(o) <= Len(s) /\ SubSeq(s, 1, Len(o)) = o

\* strings.Replace(s, old, new, -1): the occurrences of old that do not
\* overlap, from the left; an empty old matches before every character and at
\* the end.
RECURSIVE Replace(_, _, _)
Replace(s, old, new) ==
    IF old = <<>>
    THEN IF s = <<>> THEN new ELSE new \o <<Head(s)>> \o Replace(Tail(s), old, new)
    ELSE IF s = <<>> THEN <<>>
    ELSE IF HasPrefix(s, old)
         THEN new \o Replace(SubSeq(s, Len(old) + 1, Len(s)), old, new)
         ELSE <<Head(s)>> \o Replace(Tail(s), old, new)

\* The rules are applied from the last to the first.
RECURSIVE ReplaceAllBackwards(_, _, _)
ReplaceAllBackwards(label, mappings, k) ==
    IF k > Len(mappings) THEN label
    ELSE LET r == mappings[Len(mappings) + 1 - k]
         IN  ReplaceAllBackwards(Replace(label, OldOf(r), NewOf(r)), mappings, k + 1)

\* for _, r := range replacements { a.Label = strings.Replace(...) }
RECURSIVE ReplaceAll(_, _, _)
ReplaceAll(label, mappings, k) ==
    IF k > Len(mappings) THEN label
    ELSE ReplaceAll(Replace(label, OldOf(mappings[k]), NewOf(mappings[k])), mappings, k + 1)

\* MapLabels: the dataset and the error.
MapLabels(d, mappings) ==
    IF Len(mappings) = 0 THEN [data |-> d, err |-> nil]
    ELSE IF \E i \in DOMAIN mappings : Malformed(mappings[i])
    THEN [data |-> d,
          err |-> <<[config |-> "invalid mapping",
                     name |-> mappings[CHOOSE i \in DOMAIN mappings :
                                  /\ Malformed(mappings[i])
                                  /\ \A j \in 1..(i - 1) : ~Malformed(mappings[j])]]>>]
    ELSE [data |-> [f \in DOMAIN d |->
                      [d[f] EXCEPT !.Annotations =
                          [j \in DOMAIN d[f].Annotations |->
                              [d[f].Annotations[j] EXCEPT !.Label =
                                  ReplaceAll(@, mappings, 1)]]]],
          err |-> nil]

\* The rules drawn: well-formed ones (among them one with an empty old
\* string, one with an empty new string and two that chain), and rules with
\* no separator, with two separators and the empty rule.
RulePool ==
    { <<"a", "=", "b">>, <<"b", "=", "c">>, <<"a", "b", "=">>, <<"=", "x">>,
      <<"a", "b">>, <<"a", "=", "b", "=", "c">>, <<>> }

MappingLists == UNION {[1..k -> RulePool] : k \in 0..MaxRules}

LabelDatasets ==
    { MkDataset(<< <<Annotation(NoAttrs, Box(0, 0, 2, 2), <<"a">>),
                     Annotation(NoAttrs, Box(0, 0, 2, 2), <<"a", "b", "a">>)>>,
                   <<Annotation(NoAttrs, Box(0, 0, 2, 2), <<"c">>)>> >>),
      MkDataset(<< <<Annotation(NoAttrs, Box(0, 0, 2, 2), <<"b", "a">>)>> >>),
      MkDataset(<< <<>> >>) }

InitLabels ==
    /\ data \in LabelDatasets
    /\ cfg \in [mappings : MappingLists]
    /\ pc = "MapLabels"
    /\ orig = data
    /\ prev = data
    /\ panicked = FALSE
    /\ NotProcessing
    /\ NotSplit

\* err := af.MapLabels(mappings)
CallMapLabels ==
    /\ pc = "MapLabels"
    /\ LET r == MapLabels(data, cfg.mappings)
       IN  /\ data' = r.data
           /\ ret' = r.err
    /\ pc' = "mapped"
    /\ prev' = data
    /\ UNCHANGED <<cfg, orig, panicked, workQueue, croppedDataCh, croppedData, errors,
                   workers, collector, feedIdx, saved, reported>>
    /\ UNCHANGED splitVars

NextLabels == CallMapLabels

SpecLabels == InitLabels /\ [][NextLabels]_vars

\* The number of "=" in rule v.
Separators(v) == Cardinality({i \in DOMAIN v : v[i] = "="})

\* C14: MapLabels returns an error exactly when some rule of the list, at any
\* position, does not consist of two parts around one "=", and then no label
\* of the dataset has changed.
C14_MalformedRuleNoEffect ==
    pc = "mapped" =>
        /\ (ret # nil) <=> (\E i \in DOMAIN cfg.mappings : Separators(cfg.mappings[i]) # 1)
        /\ ret # nil => data = orig

\* Witness of C14: a rule that would change a label is followed by a rule
\* without separator; MapLabels returned an error and the labels are as parsed.
C14_Witness ==
    /\ pc = "mapped"
    /\ cfg.mappings = << <<"a", "=", "b">>, <<"a", "b">> >>
    /\ \E a \in AllAnnotations(orig) : Replace(a.Label, <<"a">>, <<"b">>) # a.Label
    /\ ret # nil
    /\ data = orig

----------------------------------------------------------------------------
(* The program: main (cmd/lblconv/main.go:314-358) from the parsed dataset  *)
(* to the written datasets.                                                *)

\* The filter runs before the bbox transform.
StageOrderFilterFirst ==
    <<"MapLabels", "Filter", "TransformBboxes", "ProcessImages", "Split", "write">>

\* The stage calls of main, in the order of its statements.
StageOrder ==
    <<"MapLabels", "TransformBboxes", "Filter", "ProcessImages", "Split", "write">>

\* The position of main after the call of stage: at the next call, or at the
\* end of main.
After(stage) ==
    LET i == CHOOSE k \in DOMAIN StageOrder : StageOrder[k] = stage
    IN  IF i = Len(StageOrder) THEN "end" ELSE StageOrder[i + 1]

\* if len(labelMappings) > 0 { if err := af.MapLabels(...); err != nil { log.Fatal } }
MainMapLabels ==
    /\ pc = "MapLabels"
    /\ LET r == MapLabels(data, cfg.mappings)
       IN  IF Len(cfg.mappings) > 0 /\ r.err # nil
           THEN /\ ret' = r.err /\ pc' = "exit" /\ UNCHANGED data
           ELSE /\ data' = IF Len(cfg.mappings) > 0 THEN r.data ELSE data
                /\ pc' = After("MapLabels")
                /\ UNCHANGED ret
    /\ prev' = data
    /\ UNCHANGED <<cfg, orig, panicked, workQueue, croppedDataCh, croppedData, errors,
                   workers, collector, feedIdx, saved, reported>>
    /\ UNCHANGED splitVars

\* if bboxScaleWidth != 1 || bboxScaleHeight != 1 || bboxAspectRatio > 0 { af.TransformBboxes(...) }
MainTransformBboxes ==
    /\ pc = "TransformBboxes"
    /\ data' = IF cfg.scaleX # F(1) \/ cfg.scaleY # F(1) \/ QGt(cfg.aspectRatio, QZero)
               THEN TransformBboxes(data, cfg.scaleX, cfg.scaleY, cfg.aspectRatio)
               ELSE data
    /\ pc' = After("TransformBboxes")
    /\ prev' = data
    /\ UNCHANGED <<cfg, orig, panicked>>
    /\ UNCHANGED piVars
    /\ UNCHANGED splitVars

\* af.Filter(...)
MainFilter ==
    /\ pc = "Filter"
    /\ LET r == Filter(data, cfg)
       IN  /\ data' = r.data
           /\ panicked' = r.panic
           /\ pc' = IF r.panic THEN "panic" ELSE After("Filter")
    /\ prev' = data
    /\ UNCHANGED <<cfg, orig>>
    /\ UNCHANGED piVars
    /\ UNCHANGED splitVars

\* if err != nil { log.Fatal("Image processing failed: ", err) }
MainCheckImages ==
    /\ pc = "done"
    /\ pc' = IF ret # nil THEN "exit" ELSE After("ProcessImages")
    /\ UNCHANGED <<data, cfg, orig, prev, panicked>>
    /\ UNCHANGED piVars
    /\ UNCHANGED splitVars

\* if len(labelOutSplits) == 1 { datasets = {af} } else { datasets, err = af.Split(...) }
MainSplit ==
    /\ pc = "Split"
    /\ IF Len(cfg.cumulativeSplits) = 1
       THEN /\ datasets' = <<data>>
            /\ pc' = After("Split")
            /\ UNCHANGED <<draws, ret, panicked>>
       ELSE \E rs \in [1..Len(data) -> Draws] :
               LET r == Split(data, cfg.cumulativeSplits, rs)
               IN  /\ datasets' = r.datasets
                   /\ draws' = r.draws
                   /\ ret' = r.err
                   /\ panicked' = r.panic
                   /\ pc' = IF r.panic THEN "panic"
                            ELSE IF r.err # nil THEN "exit" ELSE After("Split")
    /\ prev' = data
    /\ UNCHANGED <<data, cfg, orig, workQueue, croppedDataCh, croppedData, errors,
                   workers, collector, feedIdx, saved, reported>>

\* for i, data := range datasets { ... Write...(outPath, data) }
MainWrite ==
    /\ pc = "write"
    /\ pc' = After("write")
    /\ UNCHANGED <<data, cfg, orig, prev, panicked>>
    /\ UNCHANGED piVars
    /\ UNCHANGED splitVars

NextMain ==
    \/ MainMapLabels
    \/ MainTransformBboxes
    \/ MainFilter
    \/ Start
    \/ Feed
    \/ CloseWorkQueue
    \/ \E w \in DOMAIN workers : Dequeue(w)
    \/ \E w \in DOMAIN workers : Process(w)
    \/ \E w \in DOMAIN workers : Publish(w)
    \/ \E w \in DOMAIN workers : ProcessNext(w)
    \/ \E w \in DOMAIN workers : WorkerExit(w)
    \/ Collect
    \/ CollectorExit
    \/ WaitWorkers
    \/ CloseCropped
    \/ WaitAppend
    \/ CheckErrors
    \/ MainCheckImages
    \/ MainSplit
    \/ MainWrite

\* The datasets a parser returns in the runs of main: the 200x100 image with
\* a 20x20 box labelled a and a box labelled c, alone or with the 3x5 image
\* with a box labelled b.
MainFiles ==
    << [FilePath |-> P(<<"l", ".", "jpg">>),
        Annotations |-> << Annotation(NoAttrs, Box(20, 20, 40, 40), <<"a">>),
                           Annotation(NoAttrs, Box(0, 0, 100, 50), <<"c">>) >>],
       [FilePath |-> P(<<"t", ".", "png">>),
        Annotations |-> << Annotation(NoAttrs, Box(1, 1, 2, 2), <<"b">>) >>] >>

MainDatasets == {ParsedFiles(SubSeq(MainFiles, 1, n)) : n \in 1..2}

\* The flag values of the runs of main.
MainParams ==
    { [mappings |-> mp, scaleX |-> sx, scaleY |-> F(1), aspectRatio |-> QZero,
       labelNames |-> ln, attributes |-> <<>>, requiredAttrs |-> <<>>,
       minConfidence |-> QZero, requireLabel |-> TRUE,
       minBboxWidth |-> mw, minBboxHeight |-> QZero,
       minAspectRatio |-> QZero, maxAspectRatio |-> QZero,
       imageOutDir |-> <<"out">>, longerSide |-> pi[1], shorterSide |-> 0,
       downsamplingFilter |-> "box", upsamplingFilter |-> "linear",
       encoding |-> pi[3], doCropObjects |-> pi[2],
       cumulativeSplits |-> cs] :
      mp \in {<<>>, << <<"a", "=", "b">> >>, << <<"a", "b">> >>},
      sx \in {F(1), F(2)},
      ln \in {<<>>, << <<"b">> >>},
      mw \in {QZero, F(30)},
      pi \in {<<0, FALSE, "jpg">>, <<100, FALSE, "jpg">>, <<0, TRUE, "jpg">>,
              <<100, FALSE, "bmp">>},
      cs \in {<<100>>, <<50, 100>>} }

InitMain ==
    /\ data \in MainDatasets
    /\ cfg \in MainParams
    /\ pc = StageOrder[1]
    /\ orig = data
    /\ prev = data
    /\ panicked = FALSE
    /\ NotProcessing
    /\ NotSplit

SpecMain == InitMain /\ [][NextMain]_vars

\* The stage main is in at position p, and its number in the order label
\* mapping, bbox transform, filter, image processing, split, write (7 once
\* main is over).
StageOf(p) ==
    IF p \in {"ProcessImages", "feed", "wait", "closeCropped", "waitAppend",
              "checkErrors", "done"}
    THEN "ProcessImages" ELSE p

Rank(p) ==
    CASE StageOf(p) = "MapLabels" -> 1
      [] StageOf(p) = "TransformBboxes" -> 2
      [] StageOf(p) = "Filter" -> 3
      [] StageOf(p) = "ProcessImages" -> 4
      [] StageOf(p) = "Split" -> 5
      [] StageOf(p) = "write" -> 6
      [] OTHER -> 7

\* The parsed dataset with its labels mapped and then its boxes transformed,
\* as the flags ask.
MappedAndTransformed ==
    LET mapped == IF Len(cfg.mappings) > 0
                  THEN [f \in DOMAIN orig |->
                          [orig[f] EXCEPT !.Annotations =
                              [j \in DOMAIN orig[f].Annotations |->
                                  [orig[f].Annotations[j] EXCEPT !.Label =
                                      ReplaceAll(@, cfg.mappings, 1)]]]]
                  ELSE orig
    IN  IF cfg.scaleX # F(1) \/ cfg.scaleY # F(1) \/ QGt(cfg.aspectRatio, QZero)
        THEN TransformBboxes(mapped, cfg.scaleX, cfg.scaleY, cfg.aspectRatio)
        ELSE mapped

\* C15: main goes through the stages in the order label mapping, bbox
\* transform, filter, image processing, split, write, leaving none out; the
\* filter runs on the mapped labels and the transformed boxes before any image
\* was saved, keeping the annotations whose mapped label is allowed and whose
\* transformed width is not below the minimum; the datasets that are written
\* hold the files of the dataset image processing produced.
C15_StageOrder ==
    [][/\ pc' # pc =>
             \/ Rank(pc') \in {Rank(pc), Rank(pc) + 1}
             \/ pc' \in {"exit", "panic"}
       /\ (pc = "Filter" /\ pc' # pc) =>
             /\ saved = {}
             /\ data = MappedAndTransformed
             /\ AnnotationIds(data') =
                   {a.id : a \in {b \in AllAnnotations(data) :
                       /\ cfg.labelNames # <<>> => b.Label \in Range(cfg.labelNames)
                       /\ QGe(Width(b), cfg.minBboxWidth)}}
       /\ (pc = "Split" /\ pc' = "write") =>
             /\ \A f \in Range(data) :
                   Cardinality({k \in DOMAIN datasets' : f \in Range(datasets'[k])}) = 1
             /\ \A k \in DOMAIN datasets' : Range(datasets'[k]) \subseteq Range(data)
             /\ (cfg.longerSide > 0 \/ cfg.doCropObjects) =>
                   \A f \in Range(data) : \E sv \in saved : sv.path = f.FilePath
      ]_vars

\* Witness of C15: a run with the rule a=b, the allow-list {b}, scaleX = 2, a
\* minimum width of 30 and longerSide = 100 is over: the box parsed as a 20x20
\* box labelled a is in a written dataset, labelled b and 20x10 wide after the
\* transform to 40x20 and the resize by 1/2.
C15_Witness ==
    /\ pc = "end"
    /\ Len(orig) = 2 /\ Len(cfg.mappings) = 1
    /\ cfg.labelNames # <<>> /\ cfg.scaleX = F(2) /\ cfg.minBboxWidth = F(30)
    /\ cfg.longerSide = 100 /\ Len(cfg.cumulativeSplits) = 2
    /\ \E k \in DOMAIN datasets : \E f \in Range(datasets[k]) :
          /\ f.FilePath # orig[1].FilePath
          /\ Len(f.Annotations) = 1
          /\ f.Annotations[1].id = 11
          /\ f.Annotations[1].Label = <<"b">>
          /\ f.Annotations[1].Coords = Box(5, 10, 25, 20)

----------------------------------------------------------------------------
(* ProcessImages on a dataset with more files than the work queue holds.   *)

\* Files that load and save, one box each.
QueueFiles ==
    LET e(path) == [FilePath |-> P(path),
                    Annotations |-> << Annotation(NoAttrs, Box(0, 0, 1, 1), "cat") >>]
    IN  <<e(<<"l", ".", "jpg">>), e(<<"p", ".", "jpg">>), e(<<"s", ".", "jpg">>),
          e(<<"q", ".", "jpg">>), e(<<"t", ".", "png">>), e(<<"a", "/", "x", ".", "jpg">>),
          e(<<"b", "/", "x", ".", "png">>)>>

\* One file with n boxes inside its 200x100 image.
ManyBoxes(n) ==
    [FilePath |-> P(<<"l", ".", "jpg">>),
     Annotations |-> [j \in 1..n |-> Annotation(NoAttrs, Box(j, 0, j + 2, 2), "cat")]]

\* A dataset with more files than the work queue holds, processed without
\* cropping, and a dataset of one file with more crops than the queue of
\* derived files holds.
InitQueue ==
    /\ \/ /\ data = ParsedFiles(SubSeq(QueueFiles, 1, Min(QueueJobs, Len(QueueFiles))))
          /\ cfg \in [imageOutDir : {<<"out">>}, longerSide : {2}, shorterSide : {0},
                      downsamplingFilter : {"box"}, upsamplingFilter : {"linear"},
                      encoding : {"jpg"}, doCropObjects : {FALSE}]
       \/ /\ data = ParsedFiles(<<ManyBoxes(QueueJobs)>>)
          /\ cfg \in [imageOutDir : {<<"out">>}, longerSide : {0, 2}, shorterSide : {0},
                      downsamplingFilter : {"box"}, upsamplingFilter : {"linear"},
                      encoding : {"jpg"}, doCropObjects : {TRUE}]
    /\ InitProcessing

SpecQueue == InitQueue /\ [][NextPI]_vars

\* The workers that hold a file: loaded or about to be, not yet back at the
\* queue.
InFlight == {w \in DOMAIN workers : workers[w].pc \in {"process", "publish", "next"}}

\* C16: in every state of ProcessImages at most min(2 x cores, files) files
\* are being processed, the work queue holds at most twice that many files
\* and the queue of derived files at most twice that many records.
C16_BoundedConcurrency ==
    LET nt == Min(2 * NumCPU, Len(orig))
    IN  /\ Len(workers) \in {0, nt}
        /\ Cardinality(InFlight) <= nt
        /\ Len(workQueue.buf) <= 2 * nt
        /\ Len(croppedDataCh.buf) <= 2 * nt
        /\ Cardinality(InFlight) + Len(workQueue.buf) <= feedIdx

\* Witness of C16: the work queue is full and the feeder, with files left to
\* enqueue, cannot go on.
C16_Witness ==
    /\ pc = "feed" /\ feedIdx < Len(data)
    /\ Len(workQueue.buf) = 2 * Min(2 * NumCPU, Len(orig))
    /\ ~ENABLED Feed

\* The queue of derived files is full and a worker waits to send on it.
CroppedQueueFull ==
    /\ Len(croppedDataCh.buf) = 2 * Min(2 * NumCPU, Len(orig))
    /\ \E w \in DOMAIN workers : workers[w].pc = "publish"

\* C17: the work queue is closed only when every file of the dataset was
\* enqueued; the queue of derived files is closed only when all workers have
\* finished, so that no worker is left to send on it; the dataset is replaced
\* by the collected files only when the collector has taken every record and
\* finished; and the error slot is read only after all of that.
C17_BarrierOrder ==
    /\ [](/\ workQueue.closed => feedIdx = Len(orig)
          /\ croppedDataCh.closed =>
                /\ workQueue.closed
                /\ \A w \in DOMAIN workers : workers[w].pc = "done"
          /\ collector = "done" => croppedDataCh.closed /\ croppedDataCh.buf = <<>>)
    /\ [][/\ (cfg.doCropObjects /\ data' # data) =>
                /\ collector = "done"
                /\ croppedDataCh.closed /\ croppedDataCh.buf = <<>>
                /\ data' = croppedData
                /\ Len(croppedData) = Cardinality({s \in saved : s.ann # 0})
          /\ (pc = "checkErrors" /\ pc' = "done") =>
                /\ workQueue.closed /\ workQueue.buf = <<>>
                /\ \A w \in DOMAIN workers : workers[w].pc = "done"
                /\ cfg.doCropObjects =>
                      (collector = "done" /\ croppedDataCh.closed /\ data = croppedData)
                /\ errors' = errors
         ]_vars

\* Witness of C17: a run with cropping over two files has returned; the
\* dataset is the list of the three records the collector took.
C17_Witness ==
    /\ pc = "done" /\ cfg.doCropObjects
    /\ Len(orig) = 2
    /\ collector = "done" /\ croppedDataCh.closed
    /\ Len(croppedData) = 3
    /\ data = croppedData

\* The crops saved so far: the records the workers send, have sent or are
\* about to send.
SavedCrops == {s \in saved : s.ann # 0}

\* C18: with cropping, the result list changes only by the collector
\* appending the record it takes off the queue; a worker's step leaves the list
\* alone and hands its record to the queue; the caller takes the list only when
\* the collector has finished; every record of a saved crop is on its way or in
\* the list exactly once, and in the final dataset exactly once.
C18_SingleWriter ==
    /\ [](cfg.doCropObjects =>
            /\ Len(croppedData) + Len(croppedDataCh.buf)
                  + Cardinality({w \in DOMAIN workers : workers[w].pc = "publish"})
                  = Cardinality(SavedCrops)
            /\ (pc \in {"checkErrors", "done"} /\ workQueue.closed) =>
                  /\ Len(data) = Cardinality(SavedCrops)
                  /\ \A s \in SavedCrops :
                        Cardinality({i \in DOMAIN data :
                            data[i].fid = s.fid /\ Ids(data[i]) = <<s.ann>>
                            /\ data[i].FilePath = s.path}) = 1)
    /\ [][/\ croppedData' # croppedData =>
                /\ collector = "run" /\ collector' = "run"
                /\ croppedDataCh.buf # <<>>
                /\ croppedData' = Append(croppedData, Head(croppedDataCh.buf))
                /\ croppedDataCh'.buf = Tail(croppedDataCh.buf)
                /\ workers' = workers /\ pc' = pc /\ data' = data
          /\ workers' # workers =>
                /\ croppedData' = croppedData
                /\ \A w \in DOMAIN workers :
                      (workers[w].pc = "publish" /\ workers'[w] # workers[w]) =>
                          croppedDataCh'.buf =
                              Append(croppedDataCh.buf, workers[w].imageData[workers[w].i + 1])
          /\ (cfg.doCropObjects /\ data' # data) =>
                (pc = "waitAppend" /\ collector = "done" /\ data' = croppedData)
         ]_vars

\* Witness of C18: a run with cropping over two files has returned an error;
\* the three records sent before and after the failure are the dataset.
C18_Witness ==
    /\ pc = "done" /\ cfg.doCropObjects
    /\ Len(orig) = 2
    /\ ret # nil
    /\ Cardinality(SavedCrops) = 3
    /\ Len(data) = 3
    /\ \A i, j \in DOMAIN data : data[i] = data[j] => i = j

----------------------------------------------------------------------------
(* Termination of ProcessImages.                                           *)

\* The datasets of the termination check: no file, one file of each kind
\* (loadable or not, writable or not), and each of them followed by a file
\* that succeeds.
LiveDatasets ==
    {ParsedFiles(es) : es \in DistinctSeqs(FilePool, 1)}
        \cup {ParsedFiles(<<e, QueueFiles[1]>>) : e \in FilePool}

LiveParams ==
    [imageOutDir : {<<"out">>}, longerSide : {2}, shorterSide : {0},
     downsamplingFilter : {"box"}, upsamplingFilter : {"linear"},
     encoding : {"jpg"}, doCropObjects : BOOLEAN]

\* The calls above and the calls that fill the queues.
InitLive ==
    \/ /\ data \in LiveDatasets
       /\ cfg \in LiveParams
       /\ InitProcessing
    \/ InitQueue

\* The steps of the caller, the collector and the workers other than the
\* processing of a file.
Scheduled ==
    \/ Start
    \/ Feed
    \/ CloseWorkQueue
    \/ \E w \in DOMAIN workers : Dequeue(w)
    \/ \E w \in DOMAIN workers : Publish(w)
    \/ \E w \in DOMAIN workers : ProcessNext(w)
    \/ \E w \in DOMAIN workers : WorkerExit(w)
    \/ Collect
    \/ CollectorExit
    \/ WaitWorkers
    \/ CloseCropped
    \/ WaitAppend
    \/ CheckErrors

\* Weak fairness of Process, whose enabling condition is that some worker
\* holds a file it has not processed: loading, cropping, resizing and saving
\* a file return.
ProcessReturns ==
    \/ []<>(\A w \in DOMAIN workers : workers[w].pc # "process")
    \/ []<><<\E w \in DOMAIN workers : Process(w)>>_vars

\* The runs of ProcessImages in which a step is taken whenever some goroutine
\* can take one: the Go scheduler does not leave every runnable goroutine
\* waiting forever.
SpecLive == InitLive /\ [][NextPI]_vars /\ WF_vars(Scheduled) /\ ProcessReturns

\* C19: every call of ProcessImages returns, with all workers and the
\* collector finished, whatever the number of files, with or without
\* cropping, full queues and failures.
C19_Terminates ==
    <>(/\ pc = "done"
       /\ \A w \in DOMAIN workers : workers[w].pc = "done"
       /\ collector \in {"none", "done"})

\* Witness of C19: a call on more files than the work queue holds has
\* returned, every file saved and every worker finished.
C19_Witness ==
    /\ pc = "done"
    /\ Len(orig) > 2 * Len(workers)
    /\ Len(workers) > 0
    /\ \A w \in DOMAIN workers : workers[w].pc = "done"
    /\ Cardinality(saved) = Len(orig)

----------------------------------------------------------------------------
(* The way of a file through the work queue.                               *)

\* The positions of the work queue that hold file d, and the workers that
\* hold it.
Queued(buf, d) == {k \in DOMAIN buf : buf[k] = d}
Holders(ws, d) ==
    {w \in DOMAIN ws : ws[w].pc \in {"process", "publish", "next"} /\ ws[w].d = d}

\* 0: not enqueued yet, 1: in the work queue, 2: held by a worker, 3: past
\* its worker.
PhaseOf(fed, buf, ws, d) ==
    IF d > fed THEN 0
    ELSE IF Queued(buf, d) # {} THEN 1
    ELSE IF Holders(ws, d) # {} THEN 2
    ELSE 3

Phase(d) == PhaseOf(feedIdx, workQueue.buf, workers, d)

\* The saved images and the reported errors of file d.
Outcomes(d) ==
    Cardinality({s \in saved : s.fid = d})
        + Cardinality({k \in DOMAIN reported : reported[k].fid = d})

\* C20: every file of the dataset is enqueued once, taken by one worker and
\* processed once: a file is never at two places of the queue or with two
\* workers, it goes from the dataset to the queue, to one worker that keeps it
\* until it is done with it, and never back; it has at most one error and,
\* without cropping, exactly one outcome once it is past its worker; when the
\* workers have finished, every file is past its worker.
C20_EachFileOnce ==
    /\ [](\A d \in 1..Len(orig) :
            /\ Cardinality(Queued(workQueue.buf, d)) + Cardinality(Holders(workers, d))
                  <= (IF d > feedIdx THEN 0 ELSE 1)
            /\ Cardinality({k \in DOMAIN reported : reported[k].fid = d}) <= 1
            /\ Phase(d) < 2 => Outcomes(d) = 0
            /\ ~cfg.doCropObjects => Outcomes(d) = (IF Phase(d) = 3 THEN 1 ELSE 0)
            /\ (Len(workers) > 0 /\ \A w \in DOMAIN workers : workers[w].pc = "done")
                  => Phase(d) = 3)
    /\ [](\A k \in DOMAIN workQueue.buf : workQueue.buf[k] \in 1..feedIdx)
    /\ [][\A d \in 1..Len(orig) :
            /\ PhaseOf(feedIdx', workQueue'.buf, workers', d) \in {Phase(d), Phase(d) + 1}
            /\ (Phase(d) = 2 /\ PhaseOf(feedIdx', workQueue'.buf, workers', d) = 2)
                  => Holders(workers', d) = Holders(workers, d)]_vars

\* Witness of C20: one file has failed and is past its worker, the other is
\* held by one worker while the second worker is idle.
C20_Witness ==
    \E d1, d2 \in 1..Len(orig) :
        /\ Phase(d1) = 3
        /\ \E k \in DOMAIN reported : reported[k].fid = d1
        /\ Phase(d2) = 2
        /\ \E w1, w2 \in DOMAIN workers : w1 # w2 /\ workers[w1].d = d2 /\ workers[w2].pc = "idle"

----------------------------------------------------------------------------
(* Further properties of TransformBboxes.                                  *)

\* Twice the centre of a box, per axis.
CentreX2(c) == QAdd(c[1], c[3])
CentreY2(c) == QAdd(c[2], c[4])

\* The box with the centre of c, the width of c times scaleX and the height
\* of c times scaleY.
ScaledBox(c, scaleX, scaleY) ==
    LET hw == QMul(QMul(QSub(c[3], c[1]), scaleX), QHalf)
        hh == QMul(QMul(QSub(c[4], c[2]), scaleY), QHalf)
        cx == QMul(CentreX2(c), QHalf)
        cy == QMul(CentreY2(c), QHalf)
    IN  <<QSub(cx, hw), QSub(cy, hh), QAdd(cx, hw), QAdd(cy, hh)>>

\* C26: after TransformBboxes every box has the centre it had; without the
\* aspect-ratio step (aspectRatio <= 0) its width is the old width x scaleX
\* and its height the old height x scaleY; with the step, the axis that the
\* step leaves alone has the scaled size; and with scaleX = scaleY = 1 and
\* aspectRatio <= 0 every coordinate is as before.
C26_ScaleKeepsCentre ==
    pc = "transformed" =>
        \A a \in AllAnnotations(orig) :
            LET b == Same(data, a)
            IN  /\ CentreX2(b.Coords) = CentreX2(a.Coords)
                /\ CentreY2(b.Coords) = CentreY2(a.Coords)
                /\ QLe(cfg.aspectRatio, QZero) =>
                      /\ Width(b) = QMul(Width(a), cfg.scaleX)
                      /\ Height(b) = QMul(Height(a), cfg.scaleY)
                /\ \/ Width(b) = QMul(Width(a), cfg.scaleX)
                   \/ Height(b) = QMul(Height(a), cfg.scaleY)
                /\ (cfg.scaleX = F(1) /\ cfg.scaleY = F(1) /\ QLe(cfg.aspectRatio, QZero))
                      => b.Coords = a.Coords

\* Witness of C26: a call without the aspect-ratio step that doubled the
\* width and halved the height of a 4x2 box.
C26_Witness ==
    /\ pc = "transformed"
    /\ cfg.scaleX = F(2) /\ cfg.scaleY = QHalf /\ cfg.aspectRatio = QZero
    /\ \E a \in AllAnnotations(orig) :
          /\ a.Coords = Box(0, 0, 4, 2)
          /\ Same(data, a).Coords = <<F(-2), QHalf, F(6), Q(3, 2)>>

\* The aspect-ratio step on the scaled box s with result b: which edges
\* moved, and that they moved outward by one amount.
GrowsAsStated(s, b, r) ==
    LET w == QSub(s[3], s[1])
        h == QSub(s[4], s[2])
        dx == QSub(s[1], b[1])
        dy == QSub(s[2], b[2])
    IN  /\ QSub(b[3], s[3]) = dx
        /\ QSub(b[4], s[4]) = dy
        /\ QGe(dx, QZero) /\ QGe(dy, QZero)
        /\ dx = QZero \/ dy = QZero
        /\ QLe(r, QZero) => b = s
        /\ (QGt(r, QZero) /\ h # QZero /\ QLt(QDiv(w, h), r)) => (dy = QZero /\ QGt(dx, QZero))
        /\ (QGt(r, QZero) /\ h # QZero /\ QGt(QDiv(w, h), r)) => (dx = QZero /\ QGt(dy, QZero))
        /\ (QGt(r, QZero) /\ h = QZero) => (dx = QZero /\ (QGt(dy, QZero) \/ w = QZero))
        /\ (QGt(r, QZero) /\ h # QZero /\ QDiv(w, h) = r) => b = s

\* C27 as stated: for every box the aspect-ratio step moves the edges of one
\* axis only, outward by the same amount, x when width/height < r, y when
\* width/height > r or the height is 0, none when width/height = r or
\* r <= 0. It fails for a box with y2 < y1, whose x edges move inward.
C27_GrowsOneAxisOutward ==
    pc = "transformed" =>
        \A a \in AllAnnotations(orig) :
            GrowsAsStated(ScaledBox(a.Coords, cfg.scaleX, cfg.scaleY),
                          Same(data, a).Coords, cfg.aspectRatio)

\* C27 amended: the same for every box with x2 >= x1 and y2 >= y1.
C27_GrowsOneAxisOutwardValidBox ==
    pc = "transformed" =>
        \A a \in AllAnnotations(orig) :
            (QGe(Width(a), QZero) /\ QGe(Height(a), QZero)) =>
                GrowsAsStated(ScaledBox(a.Coords, cfg.scaleX, cfg.scaleY),
                              Same(data, a).Coords, cfg.aspectRatio)

\* Witness of C27: with aspect ratio 1 and no scaling, a 4x2 box was grown
\* vertically to 4x4 and a 2x4 box horizontally to 4x4.
C27_Witness ==
    /\ pc = "transformed"
    /\ cfg.scaleX = F(1) /\ cfg.scaleY = F(1) /\ cfg.aspectRatio = F(1)
    /\ \E a, b \in AllAnnotations(orig) :
          /\ a.Coords = Box(0, 0, 4, 2) /\ Same(data, a).Coords = Box(0, -1, 4, 3)
          /\ b.Coords = Box(0, 0, 2, 4) /\ Same(data, b).Coords = Box(-1, 0, 3, 4)

----------------------------------------------------------------------------
(* Further properties of Filter.                                           *)

\* The default value of an attribute's kind: 0, "", the empty list, false.
IsDefault(v) ==
    CASE v.kind = "float64" -> v.val = QZero
      [] v.kind = "string" -> v.val = ""
      [] v.kind = "[]string" -> v.val = <<>>
      [] v.kind = "bool" -> v.val = FALSE

\* Every required attribute is present with a value that is not the default
\* of its kind.
HasRequired(a, requiredAttrs) ==
    \A k \in Range(requiredAttrs) :
        k \in DOMAIN a.Attributes /\ ~IsDefault(a.Attributes[k])

\* The five predicates as the documentation of Filter states them.
PassesAll(a, par) ==
    /\ ~(HasFloatConfidence(a) /\ QLt(a.Attributes[Confidence].val, par.minConfidence))
    /\ QGe(Width(a), par.minBboxWidth) /\ QGe(Height(a), par.minBboxHeight)
    /\ (par.minAspectRatio # QZero \/ par.maxAspectRatio # QZero) =>
          /\ Height(a) # QZero
          /\ par.minAspectRatio = QZero \/ QGe(QDiv(Width(a), Height(a)), par.minAspectRatio)
          /\ par.maxAspectRatio = QZero \/ QLe(QDiv(Width(a), Height(a)), par.maxAspectRatio)
    /\ Len(par.labelNames) = 0 \/ a.Label \in Range(par.labelNames)
    /\ HasRequired(a, par.requiredAttrs)

\* The places of the dataset d that hold the annotation with the given id.
Places(d, id) ==
    {<<f, j>> \in (DOMAIN d) \X (1..MaxSize) :
        j \in DOMAIN d[f].Annotations /\ d[f].Annotations[j].id = id}

\* The file of d that stems from the parsed file fid.
FilesOf(d, fid) == {f \in DOMAIN d : d[f].fid = fid}

\* C22: after a Filter that completed, every annotation of the input that
\* passes the five predicates is in the dataset exactly once, in the file it
\* was parsed into (unless the file was removed, which happens only to files
\* without any passing annotation), with its label and coordinates, and every
\* annotation that fails a predicate is nowhere in the dataset.
C22_KeepsExactlyThePassing ==
    pc = "filtered" =>
        \A f \in DOMAIN orig : \A j \in DOMAIN orig[f].Annotations :
            LET a == orig[f].Annotations[j]
                at == Places(data, a.id)
            IN  IF PassesAll(a, cfg)
                THEN /\ Cardinality(at) = 1
                     /\ \A p \in at :
                          /\ data[p[1]].fid = orig[f].fid
                          /\ data[p[1]].Annotations[p[2]].Label = a.Label
                          /\ data[p[1]].Annotations[p[2]].Coords = a.Coords
                ELSE at = {}

\* Witness of C22: of three annotations of a file the first and the last
\* failed a predicate, so that the last was moved to the first position and
\* checked there, and the second is the one that is left.
C22_Witness ==
    /\ pc = "filtered"
    /\ \E f \in DOMAIN orig :
          /\ Len(orig[f].Annotations) = 3
          /\ ~PassesAll(orig[f].Annotations[1], cfg)
          /\ PassesAll(orig[f].Annotations[2], cfg)
          /\ ~PassesAll(orig[f].Annotations[3], cfg)
          /\ \E g \in DOMAIN data :
                /\ Len(data[g].Annotations) = 1
                /\ data[g].Annotations[1].id = orig[f].Annotations[2].id

\* C23 as stated: Filter with a required-attribute list completes, and an
\* annotation that passes the four other predicates is dropped if and only
\* if a required attribute is missing or has the default value of its kind.
\* It fails for a required attribute that holds a list of strings: the
\* comparison with the zero value panics.
C23_RequiredAttrsAllKinds ==
    /\ pc # "panic"
    /\ pc = "filtered" =>
          \A a \in AllAnnotations(orig) :
              (/\ ~ConfidenceBelow(a, cfg.minConfidence)
               /\ ~BboxTooSmall(a, cfg.minBboxWidth, cfg.minBboxHeight)
               /\ AspectRatioKeep(a, cfg.minAspectRatio, cfg.maxAspectRatio)
               /\ ~LabelFiltered(a, cfg.labelNames))
                  => (a.id \in AnnotationIds(data) <=> HasRequired(a, cfg.requiredAttrs))

\* C24: after a Filter that completed with a non-empty attribute allow-list,
\* every annotation that is left has exactly the attributes it had whose names
\* are in the list, with their values; with an empty list it has all the
\* attributes it had; and when the allow-list is the only parameter set, the
\* files and annotations are the ones of the input.
C24_AttributeProjection ==
    pc = "filtered" =>
        /\ \A b \in AllAnnotations(data) :
              \E a \in AllAnnotations(orig) :
                  /\ a.id = b.id
                  /\ DOMAIN b.Attributes =
                        (IF Len(cfg.attributes) > 0
                         THEN (DOMAIN a.Attributes) \cap Range(cfg.attributes)
                         ELSE DOMAIN a.Attributes)
                  /\ \A k \in DOMAIN b.Attributes : b.Attributes[k] = a.Attributes[k]
        /\ [cfg EXCEPT !.attributes = <<>>] = NeutralParams =>
              /\ Len(data) = Len(orig)
              /\ \A f \in DOMAIN data :
                    /\ data[f].fid = orig[f].fid
                    /\ Len(data[f].Annotations) = Len(orig[f].Annotations)
                    /\ \A j \in DOMAIN data[f].Annotations :
                          data[f].Annotations[j].id = orig[f].Annotations[j].id

\* Witness of C24: with an allow-list as the only parameter, an annotation
\* lost an attribute and kept one, and another, none of whose attributes is
\* listed, is left without attributes.
C24_Witness ==
    /\ pc = "filtered"
    /\ Len(cfg.attributes) > 0
    /\ [cfg EXCEPT !.attributes = <<>>] = NeutralParams
    /\ \E a, c \in AllAnnotations(orig) :
          /\ DOMAIN Same(data, a).Attributes # {}
          /\ DOMAIN Same(data, a).Attributes # DOMAIN a.Attributes
          /\ DOMAIN c.Attributes # {}
          /\ DOMAIN Same(data, c).Attributes = {}

\* C25: after a Filter that completed with the require-label flag, no file
\* of the dataset is without annotations, and every parsed file with an
\* annotation that passes the predicates is in the dataset exactly once, the
\* others not at all; without the flag the files are the parsed ones, in
\* their order.
C25_RequireLabel ==
    pc = "filtered" =>
        IF cfg.requireLabel
        THEN /\ \A f \in DOMAIN data : Len(data[f].Annotations) > 0
             /\ \A f \in DOMAIN orig :
                   Cardinality(FilesOf(data, orig[f].fid)) =
                      (IF \E j \in DOMAIN orig[f].Annotations :
                              PassesAll(orig[f].Annotations[j], cfg)
                       THEN 1 ELSE 0)
        ELSE /\ Len(data) = Len(orig)
             /\ \A f \in DOMAIN data : data[f].fid = orig[f].fid

\* Witness of C25: with the flag, the first of three files had no annotation
\* and was removed, the last file was moved to its place, filtered there and
\* kept, and the second file, without annotations, was removed as well.
C25_Witness ==
    /\ pc = "filtered"
    /\ cfg.requireLabel
    /\ Len(orig) = 3
    /\ Len(orig[1].Annotations) = 0
    /\ Len(data) = 1
    /\ data[1].fid = orig[3].fid

----------------------------------------------------------------------------
(* Further properties of MapLabels.                                        *)

\* The label after the rules: the last rule applied to the label after the
\* rules before it.
RECURSIVE RulesApplied(_, _)
RulesApplied(label, rules) ==
    IF rules = <<>> THEN label
    ELSE LET n == Len(rules)
         IN  Replace(RulesApplied(label, SubSeq(rules, 1, n - 1)),
                     OldOf(rules[n]), NewOf(rules[n]))

\* C28: after a MapLabels that returned no error, every label is the parsed
\* label with the rules applied one after the other in the order of the list,
\* each to the result of the rules before it, and nothing but the labels has
\* changed: the files, their paths, and the annotations with their
\* coordinates and attributes are the parsed ones, in their order.
C28_RulesInOrder ==
    (pc = "mapped" /\ ret = nil) =>
        /\ Len(data) = Len(orig)
        /\ \A f \in DOMAIN data :
              /\ Len(data[f].Annotations) = Len(orig[f].Annotations)
              /\ \A j \in DOMAIN data[f].Annotations :
                    data[f].Annotations[j].Label =
                        RulesApplied(orig[f].Annotations[j].Label, cfg.mappings)
              /\ [data[f] EXCEPT !.Annotations =
                    [j \in DOMAIN data[f].Annotations |->
                        [data[f].Annotations[j] EXCEPT
                            !.Label = orig[f].Annotations[j].Label]]] = orig[f]

\* Witness of C28: with the rules a=b, b=c the label "a" has become "c" (the
\* second rule rewrote the result of the first) and the label "aba" has
\* become "ccc".
C28_Witness ==
    /\ pc = "mapped"
    /\ ret = nil
    /\ cfg.mappings = << <<"a", "=", "b">>, <<"b", "=", "c">> >>
    /\ \E f \in DOMAIN orig : \E j, k \in DOMAIN orig[f].Annotations :
          /\ orig[f].Annotations[j].Label = <<"a">>
          /\ data[f].Annotations[j].Label = <<"c">>
          /\ orig[f].Annotations[k].Label = <<"a", "b", "a">>
          /\ data[f].Annotations[k].Label = <<"c", "c", "c">>

----------------------------------------------------------------------------
(* The files derived by cropping, as cropObjectsFromImage returns them.     *)

\* The derived files a worker holds that it has not saved yet: their paths
\* are the ones cropObjectsFromImage gave them.
Unsaved(wk) ==
    IF wk.pc = "next" THEN (wk.i + 1)..Len(wk.imageData)
    ELSE IF wk.pc = "publish" THEN (wk.i + 2)..Len(wk.imageData)
    ELSE {}

\* The number a sequence of decimal digits stands for.
RECURSIVE DigitsValue(_)
DigitsValue(ds) ==
    IF ds = <<>> THEN 0
    ELSE 10 * DigitsValue(SubSeq(ds, 1, Len(ds) - 1))
            + (CHOOSE n \in 0..9 : ToString(n) = ds[Len(ds)])

\* %02d prints a position with at least two digits that read as the position.
PositionsPrinted ==
    \A n \in 0..120 : Len(Fmt02d(n)) >= 2 /\ DigitsValue(Fmt02d(n)) = n

\* C29: a derived file that a worker holds stems from one annotation of the
\* worker's source file; its path is the source path with "_" and the
\* position of that annotation in the source file's list (from 0, discarded
\* annotations counted, two digits for positions below 10) put before the
\* extension; its annotation has the attributes of the source annotation and
\* the clipped rectangle as crop-origin attribute; the derived files of one
\* source file have different paths; the source file is as it was parsed; and
\* the printed position has at least two digits and reads as the position.
C29_DerivedPathAndAttributes ==
    /\ \A w \in DOMAIN workers :
          LET wk == workers[w]
          IN  wk.pc \in {"publish", "next"} =>
                /\ data[wk.d] = orig[wk.d]
                /\ \A k, l \in DOMAIN wk.imageData :
                      k # l => wk.imageData[k].FilePath # wk.imageData[l].FilePath
                /\ \A k \in Unsaved(wk) :
                      \E j \in DOMAIN orig[wk.d].Annotations :
                          LET src == orig[wk.d]
                              a == src.Annotations[j]
                              b == wk.imageData[k].Annotations[1]
                              ext == Ext(src.FilePath)
                              pos == IF j - 1 < 10 THEN <<"0", ToString(j - 1)>>
                                     ELSE <<ToString((j - 1) \div 10), ToString((j - 1) % 10)>>
                          IN  /\ b.id = a.id
                              /\ Len(wk.imageData[k].Annotations) = 1
                              /\ wk.imageData[k].FilePath =
                                    SubSeq(src.FilePath, 1, Len(src.FilePath) - Len(ext))
                                        \o <<"_">> \o pos \o ext
                              /\ DOMAIN b.Attributes = (DOMAIN a.Attributes) \cup {CropCoords}
                              /\ \A n \in DOMAIN a.Attributes :
                                    n # CropCoords => b.Attributes[n] = a.Attributes[n]
                              /\ b.Attributes[CropCoords] =
                                    StringV(ClipRect(a, loadImage(src.FilePath)))
                              /\ b.Label = a.Label
    /\ PositionsPrinted

\* Witness of C29: the second annotation of in/a/x.jpg lies outside the image
\* and was discarded; the worker has saved the crop of the first and holds
\* the crop of the third, whose path ends in _02.
C29_Witness ==
    \E w \in DOMAIN workers :
        /\ workers[w].pc = "publish"
        /\ workers[w].i = 0
        /\ Len(orig[workers[w].d].Annotations) = 3
        /\ Len(workers[w].imageData) = 2
        /\ workers[w].imageData[2].FilePath =
              <<"in", "/", "a", "/", "x", "_", "0", "2", ".", "jpg">>
        /\ Confidence \notin DOMAIN workers[w].imageData[2].Annotations[1].Attributes
        /\ CropCoords \in DOMAIN workers[w].imageData[2].Annotations[1].Attributes

----------------------------------------------------------------------------
(* ProcessImages without resizing and cropping.                            *)

\* Neither a side length nor cropping is requested.
NothingRequested == cfg.longerSide <= 0 /\ cfg.shorterSide <= 0 /\ ~cfg.doCropObjects

\* C30: when neither a side length nor cropping is requested, ProcessImages
\* returns nil and nothing has happened: no worker, collector or queue, no
\* image read or written, no error recorded, the dataset as it was, whatever
\* the filter names, the encoding and the output directory are.
C30_NothingRequestedNoEffect ==
    NothingRequested =>
        /\ workers = <<>> /\ collector = "none"
        /\ workQueue = NoChan /\ croppedDataCh = NoChan /\ feedIdx = 0
        /\ croppedData = <<>>
        /\ saved = {} /\ reported = <<>> /\ errors = <<>>
        /\ data = orig
        /\ ret = nil
        /\ pc \in {"ProcessImages", "done"}

\* Witness of C30: a call with negative side lengths, an unknown filter, an
\* unknown encoding and an empty output directory on two files has returned.
C30_Witness ==
    /\ pc = "done"
    /\ cfg.longerSide = -1 /\ cfg.shorterSide = -1 /\ ~cfg.doCropObjects
    /\ cfg.downsamplingFilter = "cubic" /\ cfg.encoding = "bmp"
    /\ cfg.imageOutDir = <<>>
    /\ Len(data) = 2
    /\ ret = nil

----------------------------------------------------------------------------
(* The order of the steps of processImage for one image.                   *)

\* The file of the dataset given to ProcessImages that carries the number fid.
SourceOf(fid) == orig[CHOOSE j \in DOMAIN orig : orig[j].fid = fid]

\* The images processImage loops over for file f: the crops, or the image.
ImagesOf(f) ==
    LET img == loadImage(f.FilePath)
    IN  IF cfg.doCropObjects
        THEN cropObjects(f, img, 0)
        ELSE [crops |-> <<[w |-> img.w, h |-> img.h]>>, annotatedFiles |-> <<f>>]

\* The written image r went through the steps in order: its file was loaded,
\* the image that was resized is a crop of the loaded image (or the loaded
\* image itself without cropping), and what was written is the resized image
\* (or the image as it was without resizing).
SavedInOrder(r) ==
    LET f == SourceOf(r.fid)
        img == loadImage(f.FilePath)
        c == ImagesOf(f)
    IN  /\ img.ok
        /\ IF cfg.doCropObjects
           THEN /\ img.sub
                /\ \E k \in DOMAIN c.crops :
                      /\ c.annotatedFiles[k].Annotations[1].id = r.ann
                      /\ c.crops[k] = [w |-> r.srcW, h |-> r.srcH]
                      /\ r.path = OutPath(cfg.imageOutDir, c.annotatedFiles[k].FilePath,
                                          FileExt(cfg.encoding))
           ELSE /\ r.ann = 0
                /\ img.w = r.srcW /\ img.h = r.srcH
                /\ r.path = OutPath(cfg.imageOutDir, f.FilePath, FileExt(cfg.encoding))
        /\ IF cfg.longerSide > 0 \/ cfg.shorterSide > 0
           THEN resizeImage([w |-> r.srcW, h |-> r.srcH], cfg.longerSide,
                            cfg.shorterSide).resized = [w |-> r.w, h |-> r.h]
           ELSE r.w = r.srcW /\ r.h = r.srcH /\ r.filter = "none"
        /\ ~saveImageFails(r.path)

\* The record g of a crop carries the path of a written image of its
\* annotation in the set s, and the coordinates of that image's size.
SavedAndUpdated(g, s) ==
    \E r \in s :
        /\ r.fid = g.fid /\ r.ann = g.Annotations[1].id
        /\ g.FilePath = r.path
        /\ g.Annotations[1].Coords = <<F(0), F(0), F(r.w), F(r.h)>>

\* The record f of a file with the path and the scaled coordinates of the
\* written image r.
UpdatedBy(f, r) ==
    IF cfg.longerSide > 0 \/ cfg.shorterSide > 0
    THEN scaleCoords([f EXCEPT !.FilePath = r.path], Q(r.w, r.srcW), Q(r.h, r.srcH))
    ELSE [f EXCEPT !.FilePath = r.path]

\* The annotations of the images of file fid that were written.
SavedAnns(fid) == {r.ann : r \in {x \in saved : x.fid = fid}}

\* The report e ended its file: nothing of the file was written after the
\* failing step. A failed load or crop leaves no written image, a failed save
\* leaves the images before the one that could not be written.
EndedBy(e) ==
    LET c == ImagesOf(SourceOf(e.fid))
        n == Cardinality(SavedAnns(e.fid))
    IN  IF e.step \in {"load", "crop"}
        THEN n = 0
        ELSE /\ n < Len(c.crops)
             /\ cfg.doCropObjects =>
                  SavedAnns(e.fid) = {c.annotatedFiles[k].Annotations[1].id : k \in 1..n}
             /\ saveImageFails(OutPath(cfg.imageOutDir, c.annotatedFiles[n + 1].FilePath,
                                       FileExt(cfg.encoding)))

\* C21: each image goes through load, crop (or not), resize (or not), save and
\* publish in this order. Every written image is the resized crop of its loaded
\* file; a record on the way to the collector has been written and carries the
\* new path and the rescaled coordinates; a file's record changes only in the
\* step that writes its image; a record is sent in a step after the one that
\* wrote it; a failure writes nothing, changes no record, sends nothing, returns
\* the worker to the queue and leaves the rest of the file undone.
C21_PerItemOrder ==
    /\ [](/\ \A r \in saved : SavedInOrder(r)
          /\ \A k \in DOMAIN croppedDataCh.buf : SavedAndUpdated(croppedDataCh.buf[k], saved)
          /\ \A k \in DOMAIN croppedData : SavedAndUpdated(croppedData[k], saved)
          /\ \A w \in DOMAIN workers :
                workers[w].pc = "publish" =>
                    SavedAndUpdated(workers[w].imageData[workers[w].i + 1], saved)
          /\ \A k \in DOMAIN reported : EndedBy(reported[k]))
    /\ [][/\ \A j \in DOMAIN data :
                (~cfg.doCropObjects /\ data'[j] # data[j]) =>
                    \E r \in saved' \ saved :
                        /\ r.fid = data[j].fid
                        /\ data'[j] = UpdatedBy(data[j], r)
          /\ \A w \in DOMAIN workers :
                (workers[w].pc # "publish" /\ workers'[w].pc = "publish") =>
                    /\ workers[w].pc \in {"process", "next"}
                    /\ croppedDataCh' = croppedDataCh
                    /\ \E r \in saved' \ saved :
                          r.ann = workers'[w].imageData[workers'[w].i + 1].Annotations[1].id
          /\ Len(croppedDataCh'.buf) > Len(croppedDataCh.buf) =>
                /\ saved' = saved
                /\ \E g \in {croppedDataCh'.buf[Len(croppedDataCh'.buf)]} :
                      /\ croppedDataCh'.buf = Append(croppedDataCh.buf, g)
                      /\ SavedAndUpdated(g, saved)
          /\ reported' # reported =>
                /\ saved' = saved /\ data' = data /\ croppedDataCh' = croppedDataCh
                /\ \E w \in DOMAIN workers :
                      /\ workers[w].pc \in {"process", "next"}
                      /\ workers'[w] = Idle
                      /\ workers[w].d \notin Range(workQueue'.buf)
         ]_vars

\* Witness of C21: with cropping and resizing, the first crop of a file was
\* resized from 1x1 to 2x2, written and collected with its new path and
\* coordinates, the second crop could not be written, and the call is over.
C21_Witness ==
    /\ pc = "done" /\ cfg.doCropObjects /\ cfg.longerSide = 2
    /\ \E k \in DOMAIN reported, g \in Range(croppedData) :
          /\ reported[k].step = "save"
          /\ g.fid = reported[k].fid
          /\ g.FilePath = <<"out", "/", "z", "_", "0", "0", ".", "jpg">>
          /\ g.Annotations[1].Coords = <<F(0), F(0), F(2), F(2)>>
          /\ \E r \in saved : r.path = g.FilePath /\ r.srcW = 1 /\ r.w = 2
          /\ Cardinality(SavedAnns(g.fid)) = 1
          /\ Len(SourceOf(g.fid).Annotations) = 2

============================================================================
